---- MODULE Spec2Model ----
(***************************************************************************)
(* Verification model of fixtures of the demo collection:                  *)
(*   - MemoryManager, the per-user JSON memory file (09_memory_context.py) *)
(*   - the SQL tool over ecommerce.db (13_database_agent.py)               *)
(*   - SimpleVectorStore, the keyword index (12_rag_pipeline.py)           *)
(*   - execute_python_code and its denylist (19_code_execution.py)         *)
(*   - the chat and upload servers and their sessions                      *)
(*     (04_fastapi_chatbot.py, 05_file_upload.py)                          *)
(*   - the external-API tools (14_external_apis.py)                        *)
(*   - the console chat loop (08_console_chat.py)                          *)
(*   - DocumentChunker.chunk_text (12_rag_pipeline.py)                     *)
(* Each fixture has its own specification over a shared set of variables;  *)
(* a specification leaves the variables of the other fixtures unchanged.   *)
(***************************************************************************)
EXTENDS Integers, Sequences, FiniteSets, TLC

VARIABLES
    memory,     \* manager -> its self.memory dictionary (NoManager: not constructed)
    files,      \* agent_memory/: the user's memory file and its .json.backup
    clock,      \* the instant datetime.now() returns
    appended,   \* history variable: entries appended since the memory was last empty
    op,         \* the operation that acted last, and the manager it acted on
    pc,         \* position of main() of the memory demo
    turn,       \* index into main()'s conversations list
    run,        \* how many times the memory demo has been started
    db,         \* ecommerce.db: the products and orders tables
    sql,        \* the SQL operation that acted last: its query and what it returned
    documents,  \* SimpleVectorStore.documents
    index,      \* SimpleVectorStore.index: word -> list of document ids
    calls,      \* history variable: the (doc_id, text) of each add_document call
    rag,        \* the vector-store operation that acted last, and what it returned
    exec,       \* the execute_python_code call that acted last, and what it did
    server,     \* which script serves: the chat server or the upload server
    sessions,   \* the sessions dict of the server: session_id -> entry
    agents,     \* the Agent objects made so far: the session each was made for,
                \* and the messages it has been called with
    pending,    \* requests in flight: /upload suspended at "await file.read()",
                \* /chat received and not yet run
    disk,       \* uploads/: (session_id, filename) -> bytes
    web,        \* the request answered last, and its reply
    environ,    \* os.environ["NEWS_API_KEY"] after load_dotenv()
    api,        \* the external-API tool called last: its requests and its return
    console,    \* chat_with_agent(): where the loop is, what it read and printed
    chunker     \* chunk_text(): its arguments and the locals of its loop

memVars == <<memory, files, clock, appended, op, pc, turn, run>>

sqlVars == <<db, sql>>

ragVars == <<documents, index, calls, rag>>

execVars == <<exec>>

webVars == <<server, sessions, agents, pending, disk, web>>

apiVars == <<environ, api>>

conVars == <<console>>

chunkVars == <<chunker>>

\* the fixtures added to the first three
newVars == <<execVars, webVars, apiVars, conVars, chunkVars>>

oldVars == <<memVars, sqlVars, ragVars>>

vars == <<oldVars, newVars>>

----------------------------------------------------------------------------
(* Bounds of the model *)

\* demo runs (sessions) explored; 5 runs of 12 entries pass the 50-entry limit
MaxRuns == 5
\* instants the clock can reach through Tick
MaxClock == 1
\* longest conversation history explored when operations are called freely
MaxConv == 1
\* longest query text, in lexical pieces
MaxQueryLen == 3
\* longest document text and search query, in characters
MaxTextLen == 2
\* add_document calls explored
MaxDocs == 2
\* largest top_k asked for
MaxTopK == 2
\* longest program text, in fragments
MaxCodeLen == 2
\* messages passed to one agent
MaxTurns == 2
\* /upload requests waiting for their bytes at one time
MaxPending == 1
\* files uploaded to one session
MaxFiles == 1
\* requests in flight at one time when /chat requests wait too
MaxInFlight == 2

\* lines read by the console chat
MaxInputs == 3
\* characters of a text given to chunk_text, and its chunk_size
MaxChunkLen == 4
MaxChunkSize == 4
\* characters and chunk_size of the longer texts of letters and periods
MaxLongLen == 8
MaxLongSize == 7
\* passes of the loop of chunk_text that are followed
MaxWindows == 6

(* Program constants *)

\* conversation_history[-50:]
HistoryLimit == 50
\* conversation_history[-10:] in get_conversation_summary
SummaryCount == 10
\* entry['message'][:100] in get_conversation_summary
SummaryChars == 100
\* relevant_lines[:10] in search_files
ExcerptLines == 10
\* articles[:5] in get_news_headlines
NewsCount == 5
\* len(upcoming) >= 5 in get_public_holidays
HolidayCount == 5

----------------------------------------------------------------------------
(* Python values *)

\* Python None
None == "None"

\* datetime.isoformat(): the text of instant t
IsoFormat(t) == ToString(t)

\* an empty dict
EmptyDict == << >>

\* d[k] = v
DictSet(d, k, v) == [x \in (DOMAIN d) \cup {k} |-> IF x = k THEN v ELSE d[x]]

\* a str, kept as its identity and its length; s[:n] keeps the first n characters
Str(id, len) == [id |-> id, len |-> len]

Slice(s, n) == IF s.len <= n THEN s ELSE [id |-> s.id, len |-> n]

\* seq[-n:]
LastN(seq, n) ==
    IF Len(seq) <= n THEN seq ELSE SubSeq(seq, Len(seq) - n + 1, Len(seq))

\* seq[:n]
FirstN(seq, n) ==
    IF Len(seq) <= n THEN seq ELSE SubSeq(seq, 1, n)

----------------------------------------------------------------------------
(* The memory file: JSON text, or text that does not parse, or no file *)

Managers == {"A", "B"}

UserId == "demo_user"

NoManager == [unset |-> TRUE]

Absent == [kind |-> "absent"]

\* json.dump of a scalar: None becomes null, a str a JSON string
JsonScalar(v) == IF v = None THEN [null |-> TRUE] ELSE [string |-> v]

\* json.load of a scalar
PyScalar(j) == IF "null" \in DOMAIN j THEN None ELSE j.string

JsonEntry(e) ==
    [role |-> [string |-> e.role], message |-> [string |-> e.message],
     timestamp |-> [string |-> e.timestamp]]

PyEntry(j) ==
    [role |-> j.role.string, message |-> j.message.string,
     timestamp |-> j.timestamp.string]

JsonFact(f) == [value |-> [string |-> f.value], timestamp |-> [string |-> f.timestamp]]

PyFact(j) == [value |-> j.value.string, timestamp |-> j.timestamp.string]

\* json.dump(self.memory, indent=2, fp=f): the whole dictionary as one document
JsonDump(m) ==
    [kind |-> "json",
     doc |-> [user_id |-> [string |-> m.user_id],
              preferences |-> [k \in DOMAIN m.preferences |->
                                  JsonScalar(m.preferences[k])],
              conversation_history |-> [i \in 1..Len(m.conversation_history) |->
                                  JsonEntry(m.conversation_history[i])],
              facts |-> [k \in DOMAIN m.facts |-> JsonFact(m.facts[k])],
              created_at |-> [string |-> m.created_at],
              last_interaction |-> JsonScalar(m.last_interaction)]]

\* json.load(f) of a file that parses
JsonLoad(f) ==
    [user_id |-> f.doc.user_id.string,
     preferences |-> [k \in DOMAIN f.doc.preferences |->
                         PyScalar(f.doc.preferences[k])],
     conversation_history |-> [i \in 1..Len(f.doc.conversation_history) |->
                         PyEntry(f.doc.conversation_history[i])],
     facts |-> [k \in DOMAIN f.doc.facts |-> PyFact(f.doc.facts[k])],
     created_at |-> f.doc.created_at.string,
     last_interaction |-> PyScalar(f.doc.last_interaction)]

\* the dictionary load_memory returns when there is nothing to load
FreshMemory(uid, t) ==
    [user_id |-> uid,
     preferences |-> EmptyDict,
     conversation_history |-> << >>,
     facts |-> EmptyDict,
     created_at |-> IsoFormat(t),
     last_interaction |-> None]

\* (a load that never reads the file)
LoadedMemoryFresh(fs, t) == FreshMemory(UserId, t)

\* load_memory: the dictionary it returns ...
LoadedMemory(fs, t) ==
    IF fs.main.kind = "json" THEN JsonLoad(fs.main) ELSE FreshMemory(UserId, t)

\* (a load that leaves the broken file where it is)
LoadedFilesNoRename(fs) == fs

\* ... and the directory it leaves: a file that does not parse is renamed
LoadedFiles(fs) ==
    IF fs.main.kind = "garbage"
        THEN [main |-> Absent, backup |-> fs.main]
        ELSE fs

\* save_memory: stamp last_interaction, then write the whole dictionary
Stamped(m, t) == [m EXCEPT !.last_interaction = IsoFormat(t)]

\* (a save that writes the dictionary as it was before the stamp)
SavedUnstamped(fs, m) ==
    [fs EXCEPT !.main = JsonDump([m EXCEPT !.last_interaction = None])]

\* (a save that re-reads the file and keeps the preferences it finds there)
SavedMerged(fs, m) ==
    IF fs.main.kind = "json"
        THEN [fs EXCEPT !.main = JsonDump([m EXCEPT !.preferences =
                 [k \in (DOMAIN JsonLoad(fs.main).preferences) \cup (DOMAIN @) |->
                     IF k \in DOMAIN @ THEN @[k]
                     ELSE JsonLoad(fs.main).preferences[k]]])]
        ELSE [fs EXCEPT !.main = JsonDump(m)]

SavedFiles(fs, m) == [fs EXCEPT !.main = JsonDump(m)]

----------------------------------------------------------------------------
(* MemoryManager *)

Live(i) == memory[i] # NoManager

\* (the slice [:50], which keeps the oldest entries)
KeepFirst(h) == FirstN(h, HistoryLimit)

\* self.memory["conversation_history"][-50:]
KeepLast(h) == LastN(h, HistoryLimit)

Entry(role, message, t) ==
    [role |-> role, message |-> message, timestamp |-> IsoFormat(t)]

\* get_preference
GetPreference(m, k) ==
    IF k \in DOMAIN m.preferences THEN m.preferences[k] ELSE None

\* get_fact
GetFact(m, k) ==
    IF k \in DOMAIN m.facts THEN m.facts[k].value ELSE None

\* get_conversation_summary: the last 10 entries, 100 characters of each
SummaryLine(e) ==
    [role |-> IF e.role = "user" THEN "User" ELSE "Assistant",
     text |-> Slice(e.message, SummaryChars)]

GetConversationSummary(m) ==
    LET history == LastN(m.conversation_history, SummaryCount)
    IN  IF history = << >>
            THEN << >>
            ELSE [i \in 1..Len(history) |-> SummaryLine(history[i])]

\* MemoryManager(user_id) at instant t: __init__ runs load_memory
Construct(i, t) ==
    /\ memory' = [memory EXCEPT ![i] = LoadedMemory(files, t)]
    /\ files' = LoadedFiles(files)
    /\ appended' = IF files.main.kind = "json" THEN appended ELSE << >>
    /\ op' = [name |-> "construct", by |-> i]

\* add_preference(key, value)
AddPreference(i, k, v) ==
    /\ Live(i)
    /\ LET m == Stamped([memory[i] EXCEPT
                           !.preferences = DictSet(@, k, v)], clock)
       IN  /\ memory' = [memory EXCEPT ![i] = m]
           /\ files' = SavedFiles(files, m)
    /\ op' = [name |-> "add_preference", by |-> i]
    /\ UNCHANGED appended

\* add_fact(key, value)
AddFact(i, k, v) ==
    /\ Live(i)
    /\ LET m == Stamped([memory[i] EXCEPT
                           !.facts = DictSet(@, k,
                              [value |-> v, timestamp |-> IsoFormat(clock)])],
                        clock)
       IN  /\ memory' = [memory EXCEPT ![i] = m]
           /\ files' = SavedFiles(files, m)
    /\ op' = [name |-> "add_fact", by |-> i]
    /\ UNCHANGED appended

\* add_conversation(role, message)
AddConversation(i, role, message) ==
    /\ Live(i)
    /\ LET e == Entry(role, message, clock)
           m == Stamped([memory[i] EXCEPT
                           !.conversation_history = KeepLast(Append(@, e))],
                        clock)
       IN  /\ memory' = [memory EXCEPT ![i] = m]
           /\ files' = SavedFiles(files, m)
           /\ appended' = Append(appended, e)
    /\ op' = [name |-> "add_conversation", by |-> i]

\* the clear_user_memory tool
ClearUserMemory(i) ==
    /\ Live(i)
    /\ LET m == Stamped(FreshMemory(UserId, clock), clock)
       IN  /\ memory' = [memory EXCEPT ![i] = m]
           /\ files' = SavedFiles(files, m)
    /\ appended' = << >>
    /\ op' = [name |-> "clear_user_memory", by |-> i]

----------------------------------------------------------------------------
(* The environment of the memory file *)

\* time passes
Tick ==
    /\ clock < MaxClock
    /\ clock' = clock + 1
    /\ op' = [name |-> "tick", by |-> "env"]
    /\ UNCHANGED <<memory, files, appended, pc, turn, run, sqlVars, ragVars, newVars>>

\* the file is left with text that does not parse (a cut-off write, an edit);
\* rest is what the text still holds of the document
CorruptFile(rest) ==
    /\ files.main.kind = "json"
    /\ files' = [files EXCEPT !.main = [kind |-> "garbage", rest |-> rest]]
    /\ op' = [name |-> "corrupt", by |-> "env"]
    /\ UNCHANGED <<memory, appended>>

\* the process that holds manager i ends
Exit(i) ==
    /\ Live(i)
    /\ memory' = [memory EXCEPT ![i] = NoManager]
    /\ op' = [name |-> "exit", by |-> i]
    /\ UNCHANGED <<files, appended>>

----------------------------------------------------------------------------
(* Inputs *)

Keys == {"name", "color"}

\* the key stored under where one manager runs alone
DemoKeys == {"name"}

Values == {"Alice"}

Roles == {"user", "assistant"}

Messages == {Str("hello", 5)}

InitMem ==
    /\ memory = [i \in Managers |-> NoManager]
    /\ files = [main |-> Absent, backup |-> Absent]
    /\ clock = 0
    /\ appended = << >>
    /\ op = [name |-> "init", by |-> "env"]
    /\ pc = "idle"
    /\ turn = 1
    /\ run = 0

\* ecommerce.db does not exist yet: no table
NoTable == [exists |-> FALSE, rows |-> {}]

InitSql ==
    /\ db = [products |-> NoTable, orders |-> NoTable]
    /\ sql = [name |-> "init"]

\* vector_store = SimpleVectorStore()
InitRag ==
    /\ documents = << >>
    /\ index = EmptyDict
    /\ calls = << >>
    /\ rag = [name |-> "init"]

\* no execute_python_code call yet
InitExec == exec = [name |-> "init"]

\* sessions = {}; uploads/ is an empty directory
InitWeb ==
    /\ server = None
    /\ sessions = EmptyDict
    /\ agents = << >>
    /\ pending = {}
    /\ disk = [dirs |-> {}, files |-> EmptyDict]
    /\ web = [name |-> "init"]

\* the process environment before load_dotenv()
InitApi ==
    /\ environ = None
    /\ api = [name |-> "init"]

\* chat_with_agent() has not been called
InitCon == console = [pc |-> "start"]

\* chunk_text() has not been called
InitChunk == chunker = [pc |-> "idle"]

InitAll ==
    /\ InitMem /\ InitSql /\ InitRag
    /\ InitExec /\ InitWeb /\ InitApi /\ InitCon /\ InitChunk

\* what a call of a manager leaves alone: the clock and main()'s position
Called == UNCHANGED <<clock, pc, turn, run, sqlVars, ragVars, newVars>>

(* One manager called freely, with the clock and the file's environment *)

Solo == "A"

SoloConstruct == ~Live(Solo) /\ Construct(Solo, clock) /\ Called

SoloAddPreference == \E k \in DemoKeys, v \in Values : AddPreference(Solo, k, v) /\ Called

SoloAddFact == \E k \in DemoKeys, v \in Values : AddFact(Solo, k, v) /\ Called

SoloAddConversation ==
    \E r \in Roles, msg \in Messages :
        /\ Live(Solo)
        /\ Len(memory[Solo].conversation_history) < MaxConv
        /\ AddConversation(Solo, r, msg)
        /\ Called

SoloClearUserMemory == ClearUserMemory(Solo) /\ Called

SoloExit == Exit(Solo) /\ Called

SoloCorruptFile == CorruptFile(files.main.doc) /\ Called

NextMemory ==
    \/ SoloConstruct
    \/ SoloAddPreference
    \/ SoloAddFact
    \/ SoloAddConversation
    \/ SoloClearUserMemory
    \/ SoloExit
    \/ SoloCorruptFile
    \/ Tick

SpecMemory == InitAll /\ [][NextMemory]_vars

(* Two managers of one user, e.g. two processes, interleaving their calls *)

SharedConstruct == \E i \in Managers : ~Live(i) /\ Construct(i, clock) /\ Called

SharedAddPreference ==
    \E i \in Managers, k \in Keys, v \in Values : AddPreference(i, k, v) /\ Called

SharedAddFact ==
    \E i \in Managers, k \in Keys, v \in Values : AddFact(i, k, v) /\ Called

SharedAddConversation ==
    \E i \in Managers, r \in Roles, msg \in Messages :
        /\ Live(i)
        /\ Len(memory[i].conversation_history) < MaxConv
        /\ AddConversation(i, r, msg)
        /\ Called

SharedClearUserMemory == \E i \in Managers : ClearUserMemory(i) /\ Called

NextShared ==
    \/ SharedConstruct
    \/ SharedAddPreference
    \/ SharedAddFact
    \/ SharedAddConversation
    \/ SharedClearUserMemory

SpecShared == InitAll /\ [][NextShared]_vars

----------------------------------------------------------------------------
(* main() of the memory demo, run again and again: six turns a run, each a  *)
(* user entry, the agent's tool calls, and an assistant entry               *)

\* the conversations list of main(), and the replies of the sample output
UserMessages ==
    << Str("Hello! My name is Alice", 54), Str("What's my name?", 15),
       Str("I love reading science fiction", 65), Str("My favorite color is blue.", 26),
       Str("What do you know about me?", 26), Str("What books do I like?", 21) >>

Responses ==
    << Str("How can I help you today", 30), Str("Your name is Alice", 52),
       Str("His Three Laws of Robotics", 103), Str("Is there a particular shade", 77),
       Str("Here's what I know about you", 327), Str("Based on what you've told me", 326) >>

\* create_memory_agent(user_id): get_memory_manager constructs the manager
StartDemo ==
    /\ pc = "idle"
    /\ run < MaxRuns
    /\ Construct(Solo, clock)
    /\ pc' = "user"
    /\ turn' = 1
    /\ run' = run + 1
    /\ UNCHANGED <<clock, sqlVars, ragVars, newVars>>

\* manager.add_conversation("user", message)
UserTurn ==
    /\ pc = "user"
    /\ AddConversation(Solo, "user", UserMessages[turn])
    /\ pc' = "agent"
    /\ UNCHANGED <<clock, turn, run, sqlVars, ragVars, newVars>>

\* the agent's tools, each through get_memory_manager(user_id)
RememberPreference ==
    /\ pc = "agent"
    /\ \E k \in DemoKeys, v \in Values : AddPreference(Solo, k, v)
    /\ Called

RememberFact ==
    /\ pc = "agent"
    /\ \E k \in DemoKeys, v \in Values : AddFact(Solo, k, v)
    /\ Called

ForgetAll ==
    /\ pc = "agent"
    /\ ClearUserMemory(Solo)
    /\ Called

\* manager.add_conversation("assistant", response_text), then the next turn
AssistantTurn ==
    /\ pc = "agent"
    /\ AddConversation(Solo, "assistant", Responses[turn])
    /\ IF turn < Len(UserMessages)
          THEN pc' = "user" /\ turn' = turn + 1
          ELSE pc' = "done" /\ turn' = turn
    /\ UNCHANGED <<clock, run, sqlVars, ragVars, newVars>>

\* between two runs the file can be left unparseable
BreakFile ==
    /\ pc = "done"
    /\ CorruptFile(<< >>)
    /\ Called

\* the process ends and the demo is run again, one instant later
RunAgain ==
    /\ pc = "done"
    /\ run < MaxRuns
    /\ Construct(Solo, clock + 1)
    /\ pc' = "user"
    /\ turn' = 1
    /\ run' = run + 1
    /\ clock' = clock + 1
    /\ UNCHANGED <<sqlVars, ragVars, newVars>>

NextHistory ==
    \/ StartDemo
    \/ UserTurn
    \/ RememberPreference
    \/ RememberFact
    \/ ForgetAll
    \/ AssistantTurn
    \/ BreakFile
    \/ RunAgain

SpecHistory == InitAll /\ [][NextHistory]_vars

----------------------------------------------------------------------------
(* The SQL tool over ecommerce.db *)

\* the rows setup_database inserts; price REAL in hundredths
SampleProducts ==
    { <<1, "Laptop Pro", "Electronics", 129999, 15>>,
      <<2, "Wireless Mouse", "Electronics", 2999, 100>>,
      <<3, "USB-C Cable", "Accessories", 1999, 200>>,
      <<4, "Desk Chair", "Furniture", 29999, 25>>,
      <<5, "Monitor 27", "Electronics", 39999, 30>>,
      <<6, "Keyboard Mechanical", "Electronics", 14999, 45>>,
      <<7, "Desk Lamp", "Furniture", 5999, 60>>,
      <<8, "Notebook Set", "Stationery", 1299, 150>> }

SampleOrders ==
    { <<1, 1, 2, "Alice Johnson", "2025-10-01">>,
      <<2, 2, 5, "Bob Smith", "2025-10-01">>,
      <<3, 5, 1, "Alice Johnson", "2025-10-02">>,
      <<4, 4, 3, "Carol White", "2025-10-02">>,
      <<5, 1, 1, "David Brown", "2025-10-03">>,
      <<6, 6, 2, "Alice Johnson", "2025-10-03">>,
      <<7, 3, 10, "Bob Smith", "2025-10-04">>,
      <<8, 7, 4, "Eve Davis", "2025-10-04">> }

Sample == [products |-> SampleProducts, orders |-> SampleOrders]

Tables == {"products", "orders"}

\* CREATE TABLE IF NOT EXISTS
Created(t) == IF t.exists THEN t ELSE [exists |-> TRUE, rows |-> {}]

\* (a setup that skips the DELETE)
NotDeleted(t) == t

\* DELETE FROM <table>
Deleted(t) == [t EXCEPT !.rows = {}]

\* id INTEGER PRIMARY KEY: an INSERT of a row whose id is taken fails
Conflicts(t, rows) == \E r \in t.rows, n \in rows : r[1] = n[1]

\* executemany('INSERT INTO <table> VALUES (?, ?, ?, ?, ?)', rows)
Inserted(t, rows) == [t EXCEPT !.rows = @ \cup rows]

\* setup_database: the CREATEs commit on their own; the DELETEs and INSERTs
\* are one transaction, committed by conn.commit() and lost if an INSERT raises
SetupDatabase ==
    LET made == [t \in Tables |-> Created(db[t])]
        emptied == [t \in Tables |-> Deleted(made[t])]
        failed == \E t \in Tables : Conflicts(emptied[t], Sample[t])
    IN  /\ db' = IF failed THEN made
                 ELSE [t \in Tables |-> Inserted(emptied[t], Sample[t])]
        /\ sql' = [name |-> "setup", raised |-> failed, before |-> db]
        /\ UNCHANGED <<memVars, ragVars, newVars>>

(* A query text is a sequence of lexical pieces: a run of whitespace, a      *)
(* semicolon, or the text of one statement                                   *)

Pieces ==
    { " ", ";", "select * from products", "SELECT * FROM products",
      "DROP TABLE products", "DELETE FROM products", "SELECTION" }

\* str.upper(), piece by piece
UpperPiece(p) ==
    CASE p = "select * from products" -> "SELECT * FROM PRODUCTS"
      [] p = "SELECT * FROM products" -> "SELECT * FROM PRODUCTS"
      [] OTHER -> p

\* (a check that forgets upper())
NotUpper(q) == q

Upper(q) == [n \in 1..Len(q) |-> UpperPiece(q[n])]

RECURSIVE LStrip(_)
LStrip(q) == IF q # << >> /\ Head(q) = " " THEN LStrip(Tail(q)) ELSE q

RECURSIVE RStrip(_)
RStrip(q) ==
    IF q # << >> /\ q[Len(q)] = " " THEN RStrip(SubSeq(q, 1, Len(q) - 1)) ELSE q

\* str.strip()
Strip(q) == RStrip(LStrip(q))

\* str.startswith('SELECT'): the text begins with the six letters
StartsWithSelect(q) ==
    q # << >> /\ Head(q) \in {"SELECT * FROM PRODUCTS", "SELECT * FROM products", "SELECTION"}

\* (a tool with no safety check)
AllowsAny(q) == TRUE

\* query.strip().upper().startswith('SELECT')
Allows(q) == StartsWithSelect(Upper(Strip(q)))

\* the statements of a text: what lies between semicolons, whitespace aside
RECURSIVE Statements(_)
Statements(q) ==
    IF q = << >> THEN << << >> >>
    ELSE LET rest == Statements(Tail(q))
         IN  IF Head(q) = ";" THEN << << >> >> \o rest
             ELSE IF Head(q) = " " THEN rest
             ELSE << <<Head(q)>> \o Head(rest) >> \o Tail(rest)

NonEmpty(stmts) == SelectSeq(stmts, LAMBDA st : st # << >>)

\* cursor.execute(query) and what follows it in the try block.  sqlite3 runs a
\* single statement and raises when the text holds more; a SELECT reads; DDL
\* commits on its own; DML opens a transaction that this tool never commits.
\* cursor.description is None after a statement that returns no rows, so
\* iterating it raises TypeError.
SqliteExecute(d, q) ==
    LET stmts == NonEmpty(Statements(q))
        st == stmts[1]
    IN  IF Len(stmts) # 1 \/ Len(st) # 1
            THEN [db |-> d, result |-> [kind |-> "Error", rows |-> {}]]
        ELSE IF UpperPiece(st[1]) = "SELECT * FROM PRODUCTS"
            THEN IF d.products.exists
                    THEN [db |-> d,
                          result |-> [kind |-> IF d.products.rows = {}
                                                 THEN "no results" ELSE "json",
                                      rows |-> d.products.rows]]
                    ELSE [db |-> d, result |-> [kind |-> "SQL Error", rows |-> {}]]
        ELSE IF st[1] = "DROP TABLE products"
            THEN IF d.products.exists
                    THEN [db |-> [d EXCEPT !.products = NoTable],
                          result |-> [kind |-> "Error", rows |-> {}]]
                    ELSE [db |-> d, result |-> [kind |-> "SQL Error", rows |-> {}]]
        ELSE IF st[1] = "DELETE FROM products"
            THEN [db |-> d,
                  result |-> [kind |-> IF d.products.exists THEN "Error" ELSE "SQL Error",
                              rows |-> {}]]
        ELSE [db |-> d, result |-> [kind |-> "SQL Error", rows |-> {}]]

\* execute_sql_query(query)
ExecuteSqlQuery(q) ==
    /\ sql.name # "execute"
    /\ IF ~Allows(q)
          THEN /\ db' = db
               /\ sql' = [name |-> "execute", query |-> q, opened |-> FALSE,
                          result |-> [kind |-> "Only SELECT", rows |-> {}]]
          ELSE /\ db' = SqliteExecute(db, q).db
               /\ sql' = [name |-> "execute", query |-> q, opened |-> TRUE,
                          result |-> SqliteExecute(db, q).result]
    /\ UNCHANGED <<memVars, ragVars, newVars>>

\* the agent takes the string the tool returned
ToolReturn ==
    /\ sql.name = "execute"
    /\ sql' = [name |-> "returned"]
    /\ UNCHANGED <<db, memVars, ragVars, newVars>>

\* another program writes to ecommerce.db between calls
ForeignRows ==
    [products |-> {<<9, "Webcam", "Electronics", 4999, 10>>},
     orders |-> {<<9, 9, 1, "Mallory", "2025-10-05">>}]

ExternalInsert(t) ==
    /\ db[t].exists
    /\ db' = [db EXCEPT ![t] = Inserted(@, ForeignRows[t])]
    /\ sql' = [name |-> "external"]
    /\ UNCHANGED <<memVars, ragVars, newVars>>

ExternalDelete(t) ==
    /\ db[t].exists
    /\ \E r \in db[t].rows :
          /\ r[1] = 1
          /\ db' = [db EXCEPT ![t] = [@ EXCEPT !.rows = @ \ {r}]]
    /\ sql' = [name |-> "external"]
    /\ UNCHANGED <<memVars, ragVars, newVars>>

Queries ==
    UNION { [1..n -> Pieces] : n \in 1..MaxQueryLen }

DoSetupDatabase == SetupDatabase

DoExecuteSqlQuery == \E q \in Queries : ExecuteSqlQuery(q)

DoExternalInsert == \E t \in Tables : ExternalInsert(t)

DoExternalDelete == \E t \in Tables : ExternalDelete(t)

NextSql ==
    \/ DoSetupDatabase
    \/ DoExecuteSqlQuery
    \/ ToolReturn
    \/ DoExternalInsert
    \/ DoExternalDelete

SpecSql == InitAll /\ [][NextSql]_vars

----------------------------------------------------------------------------
(* SimpleVectorStore: the keyword index *)

\* a text is a sequence of characters
Alphabet == {"a", "B", " "}

\* str.lower(), character by character
LowerChar(c) == IF c = "B" THEN "b" ELSE c

Lower(text) == [n \in 1..Len(text) |-> LowerChar(text[n])]

\* str.split(): the maximal runs of non-whitespace characters, in order
RECURSIVE SplitFrom(_, _)
SplitFrom(text, word) ==
    IF text = << >>
        THEN IF word = << >> THEN << >> ELSE << word >>
    ELSE IF Head(text) = " "
        THEN IF word = << >> THEN SplitFrom(Tail(text), << >>)
             ELSE << word >> \o SplitFrom(Tail(text), << >>)
    ELSE SplitFrom(Tail(text), Append(word, Head(text)))

Split(text) == SplitFrom(text, << >>)

SetOf(seq) == {seq[n] : n \in 1..Len(seq)}

\* (an index built from the text as written)
WordsCased(text) == Split(text)

\* text.lower().split()
Words(text) == Split(Lower(text))

\* add_document(doc_id, text)
AddDocument(id, text) ==
    /\ documents' = Append(documents,
          [id |-> id, text |-> text, metadata |-> EmptyDict,
           added_at |-> IsoFormat(clock)])
    /\ index' = [w \in (DOMAIN index) \cup SetOf(Words(text)) |->
                    IF w \in SetOf(Words(text))
                        THEN Append(IF w \in DOMAIN index THEN index[w] ELSE << >>, id)
                        ELSE index[w]]
    /\ calls' = Append(calls, <<id, text>>)
    /\ rag' = [name |-> "add_document"]
    /\ UNCHANGED <<memVars, sqlVars, newVars>>

\* scores[doc_id] = scores.get(doc_id, 0) + 1, the dict kept in insertion order
Bump(scores, id) ==
    IF \E n \in 1..Len(scores) : scores[n][1] = id
        THEN [n \in 1..Len(scores) |->
                 IF scores[n][1] = id THEN <<id, scores[n][2] + 1>> ELSE scores[n]]
        ELSE Append(scores, <<id, 1>>)

\* for doc_id in self.index[word]
RECURSIVE ScoreIds(_, _)
ScoreIds(scores, ids) ==
    IF ids = << >> THEN scores ELSE ScoreIds(Bump(scores, Head(ids)), Tail(ids))

\* for word in query_words: if word in self.index
RECURSIVE ScoreWords(_, _, _)
ScoreWords(scores, words, idx) ==
    IF words = << >> THEN scores
    ELSE ScoreWords(IF Head(words) \in DOMAIN idx
                        THEN ScoreIds(scores, idx[Head(words)])
                        ELSE scores,
                    Tail(words), idx)

\* sorted(items, key=score, reverse=True): stable, equal scores keep their order
RECURSIVE InsertByScore(_, _)
InsertByScore(sorted, item) ==
    IF sorted = << >> THEN << item >>
    ELSE IF Head(sorted)[2] >= item[2]
        THEN << Head(sorted) >> \o InsertByScore(Tail(sorted), item)
    ELSE << item >> \o sorted

RECURSIVE SortedByScore(_)
SortedByScore(items) ==
    IF items = << >> THEN << >>
    ELSE InsertByScore(SortedByScore(SubSeq(items, 1, Len(items) - 1)),
                       items[Len(items)])

\* next((d for d in self.documents if d["id"] == doc_id), None)
FirstWithId(docs, id) ==
    docs[CHOOSE n \in 1..Len(docs) :
            /\ docs[n].id = id
            /\ \A m \in 1..(n - 1) : docs[m].id # id]

\* search(query, top_k)
SearchResults(docs, idx, query, top_k) ==
    LET scores == ScoreWords(<< >>, Words(query), idx)
        sorted_docs == FirstN(SortedByScore(scores), top_k)
    IN  [n \in 1..Len(sorted_docs) |->
            [id |-> sorted_docs[n][1],
             text |-> FirstWithId(docs, sorted_docs[n][1]).text,
             relevance_score |-> sorted_docs[n][2]]]

Search(query, top_k) ==
    /\ rag' = [name |-> "search", query |-> query, top_k |-> top_k,
               results |-> SearchResults(documents, index, query, top_k)]
    /\ UNCHANGED <<documents, index, calls, memVars, sqlVars, newVars>>

DocIds == {"d1", "d2"}

Texts == UNION { [1..n -> Alphabet] : n \in 0..MaxTextLen }

DoAddDocument ==
    \E id \in DocIds, text \in Texts :
        /\ Len(documents) < MaxDocs
        /\ AddDocument(id, text)

DoSearch == \E query \in Texts, top_k \in 0..MaxTopK : Search(query, top_k)

\* the store as it is filled
NextIndex == DoAddDocument

SpecIndex == InitAll /\ [][NextIndex]_vars

\* the store filled and searched
NextSearch ==
    \/ DoAddDocument
    \/ DoSearch

SpecSearch == InitAll /\ [][NextSearch]_vars

----------------------------------------------------------------------------
(* execute_python_code: the denylist and the subprocess *)

\* a program text is a sequence of characters; the texts explored are written
\* from these fragments.  "<U+D800>" is one character, a lone surrogate, which
\* a text file opened in mode 'w' cannot encode.
Surrogate == "<U+D800>"

Fragments ==
    { <<"i", "m", "p", "o", "r", "t", " ">>,
      <<"i", "m", "p", "o", "r", "t", "\t">>,
      <<" ">>,
      <<"o", "s">>,
      <<"s", "y", "s">>,
      <<"s", "u", "b", "p", "r", "o", "c", "e", "s", "s">>,
      <<"_", "_", "i", "m", "p", "o", "r", "t", "_", "_">>,
      <<"e", "v", "a", "l">>,
      <<"E", "x", "e", "c">>,
      <<"c", "o", "m", "p", "i", "l", "e">>,
      <<"o", "p", "e", "n">>,
      <<"f", "i", "l", "e">>,
      <<"r", "a", "w", "_", "i", "n", "p", "u", "t">>,
      <<"(", "'", "f", "'", ")">>,
      <<"p", "r", "i", "n", "t">>,
      <<Surrogate>> }

\* dangerous_patterns, in the order of the list
DangerousPatterns ==
    << <<"i", "m", "p", "o", "r", "t", " ", "o", "s">>,
       <<"i", "m", "p", "o", "r", "t", " ", "s", "u", "b", "p", "r", "o", "c", "e", "s", "s">>,
       <<"i", "m", "p", "o", "r", "t", " ", "s", "y", "s">>,
       <<"_", "_", "i", "m", "p", "o", "r", "t", "_", "_">>,
       <<"e", "v", "a", "l", "(">>,
       <<"e", "x", "e", "c", "(">>,
       <<"c", "o", "m", "p", "i", "l", "e", "(">>,
       <<"o", "p", "e", "n", "(">>,
       <<"f", "i", "l", "e", "(">>,
       <<"i", "n", "p", "u", "t", "(">>,
       <<"r", "a", "w", "_", "i", "n", "p", "u", "t", "(">> >>

AsciiUpper ==
    << "A", "B", "C", "D", "E", "F", "G", "H", "I", "J", "K", "L", "M",
       "N", "O", "P", "Q", "R", "S", "T", "U", "V", "W", "X", "Y", "Z" >>

AsciiLower ==
    << "a", "b", "c", "d", "e", "f", "g", "h", "i", "j", "k", "l", "m",
       "n", "o", "p", "q", "r", "s", "t", "u", "v", "w", "x", "y", "z" >>

\* str.lower() of one character
CharLower(c) ==
    IF \E n \in 1..26 : AsciiUpper[n] = c
        THEN AsciiLower[CHOOSE n \in 1..26 : AsciiUpper[n] = c]
        ELSE c

StrLower(s) == [n \in 1..Len(s) |-> CharLower(s[n])]

\* (a check of the code as it is written)
CodeAsWritten(code) == code

\* code_lower = code.lower()
CodeLower(code) == StrLower(code)

\* pattern in s: pattern occurs in s as a run of consecutive characters
Contains(s, pattern) ==
    \E n \in 1..(Len(s) - Len(pattern) + 1) :
        SubSeq(s, n, n + Len(pattern) - 1) = pattern

\* the for loop over dangerous_patterns: the index of the first pattern found
\* in the lower-cased code, 0 when the loop ends without a return
FirstMatch(code) ==
    LET found == {n \in 1..Len(DangerousPatterns) :
                     Contains(CodeLower(code), DangerousPatterns[n])}
    IN  IF found = {} THEN 0
        ELSE CHOOSE n \in found : \A m \in found : n <= m

\* f.write(code) encodes the text: a lone surrogate raises UnicodeEncodeError
Encodable(code) == \A n \in 1..Len(code) : code[n] # Surrogate

\* the text a temporary file was given, if it was given any
NotWritten == [nothing |-> TRUE]

Written(code) == [text |-> code]

\* what the machine does with the call: whether NamedTemporaryFile makes the
\* file, and how subprocess.run ends (the child cannot start, the child
\* outlives the timeout, or it exits with something or nothing on each stream)
Machines ==
    [tempfile : {"OSError"}, run : {"exit"}, stdout : {FALSE}, stderr : {FALSE}]
    \cup [tempfile : {"made"}, run : {"OSError", "TimeoutExpired"},
          stdout : {FALSE}, stderr : {FALSE}]
    \cup [tempfile : {"made"}, run : {"exit"}, stdout : BOOLEAN, stderr : BOOLEAN]

\* output += result.stdout; output += "\n Errors:\n" + result.stderr
Output(machine) ==
    IF machine.stdout \/ machine.stderr
        THEN [kind |-> "output", stdout |-> machine.stdout,
              stderr |-> machine.stderr]
        ELSE [kind |-> "no output"]

\* the try block: what the call returns and what it leaves behind.
\*   created: a temporary file was made;  written: the text it was given;
\*   spawned: the interpreter was started on it;  left: the file outlives the call
Sandboxed(code, machine) ==
    IF machine.tempfile = "OSError"
        THEN [result |-> [kind |-> "Execution error"], created |-> FALSE,
              written |-> NotWritten, spawned |-> FALSE, left |-> FALSE]
    ELSE IF ~Encodable(code)
        \* temp_file is not bound yet: the except clause unlinks nothing
        THEN [result |-> [kind |-> "Execution error"], created |-> TRUE,
              written |-> NotWritten, spawned |-> FALSE, left |-> TRUE]
    ELSE IF machine.run = "OSError"
        THEN [result |-> [kind |-> "Execution error"], created |-> TRUE,
              written |-> Written(code), spawned |-> FALSE, left |-> FALSE]
    ELSE IF machine.run = "TimeoutExpired"
        THEN [result |-> [kind |-> "Execution timeout"], created |-> TRUE,
              written |-> Written(code), spawned |-> TRUE, left |-> FALSE]
    ELSE [result |-> Output(machine), created |-> TRUE,
          written |-> Written(code), spawned |-> TRUE, left |-> FALSE]

\* execute_python_code(code)
ExecutePythonCode(code) ==
    /\ exec.name # "execute"
    /\ LET hit == FirstMatch(code)
       IN  IF hit # 0
               THEN exec' = [name |-> "execute", code |-> code,
                             result |-> [kind |-> "Security Error",
                                         pattern |-> DangerousPatterns[hit]],
                             created |-> FALSE, written |-> NotWritten,
                             spawned |-> FALSE, left |-> FALSE]
               ELSE \E machine \in Machines :
                        exec' = [name |-> "execute", code |-> code]
                                    @@ Sandboxed(code, machine)
    /\ UNCHANGED <<oldVars, webVars, apiVars, conVars, chunkVars>>

\* the agent takes the string the tool returned
ExecReturn ==
    /\ exec.name = "execute"
    /\ exec' = [name |-> "returned"]
    /\ UNCHANGED <<oldVars, webVars, apiVars, conVars, chunkVars>>

\* the programs explored: up to MaxCodeLen fragments, one after another
RECURSIVE Flatten(_)
Flatten(parts) ==
    IF parts = << >> THEN << >> ELSE Head(parts) \o Flatten(Tail(parts))

Codes ==
    { Flatten(parts) : parts \in UNION { [1..n -> Fragments] : n \in 0..MaxCodeLen } }

DoExecutePythonCode == \E code \in Codes : ExecutePythonCode(code)

NextExec ==
    \/ DoExecutePythonCode
    \/ ExecReturn

SpecExec == InitAll /\ [][NextExec]_vars

----------------------------------------------------------------------------
(* Python str operations on texts kept as sequences of characters *)

Whitespace == {" ", "\t", "\n"}

\* str.strip()
RECURSIVE StrLStrip(_)
StrLStrip(s) ==
    IF s # << >> /\ Head(s) \in Whitespace THEN StrLStrip(Tail(s)) ELSE s

RECURSIVE StrRStrip(_)
StrRStrip(s) ==
    IF s # << >> /\ s[Len(s)] \in Whitespace
        THEN StrRStrip(SubSeq(s, 1, Len(s) - 1))
        ELSE s

StrStrip(s) == StrRStrip(StrLStrip(s))

\* str.split('\n'): the lines of a text, empty ones included
RECURSIVE SplitLinesFrom(_, _)
SplitLinesFrom(s, line) ==
    IF s = << >> THEN << line >>
    ELSE IF Head(s) = "\n" THEN << line >> \o SplitLinesFrom(Tail(s), << >>)
    ELSE SplitLinesFrom(Tail(s), Append(line, Head(s)))

SplitLines(s) == SplitLinesFrom(s, << >>)

\* str.split(): the runs of characters between whitespace
RECURSIVE StrSplitFrom(_, _)
StrSplitFrom(s, word) ==
    IF s = << >>
        THEN IF word = << >> THEN << >> ELSE << word >>
    ELSE IF Head(s) \in Whitespace
        THEN IF word = << >> THEN StrSplitFrom(Tail(s), << >>)
             ELSE << word >> \o StrSplitFrom(Tail(s), << >>)
    ELSE StrSplitFrom(Tail(s), Append(word, Head(s)))

StrSplit(s) == StrSplitFrom(s, << >>)

----------------------------------------------------------------------------
(* The chat server (04_fastapi_chatbot.py) and the upload server            *)
(* (05_file_upload.py): sessions, their agents and their files              *)

Chatbot == "04_fastapi_chatbot"

FileUpload == "05_file_upload"

\* the response of an agent call that returned None
NoResponse == [kind |-> "None"]

Apology == "I apologize, but I couldn't generate a response."

\* (the response passed on as it came)
ResponseAsIs(response) ==
    IF response = NoResponse THEN None ELSE response.text

\* str(response) if response is not None else "I apologize, ..."
ResponseText(response) ==
    IF response # NoResponse THEN response.text ELSE Apology

\* Agent(...) of the chat server, create_agent(session_id) of the upload
\* server: a new object.  session_id is the variable its three tools close
\* over (None: the agent has no tools); messages is what it has been called
\* with, each with the session_id of the request that passed it.
CreateAgent(script, session_id) ==
    [session_id |-> IF script = FileUpload THEN session_id ELSE None,
     messages |-> << >>]

\* (an entry that holds the first agent ever made)
SharedSession(script, agent, t) ==
    IF script = FileUpload
        THEN [files |-> << >>, agent |-> 1, created_at |-> IsoFormat(t)]
        ELSE [agent |-> 1, created_at |-> IsoFormat(t)]

\* the entry a request stores for an unknown session_id; agent is the place
\* of the new object in agents
NewSession(script, agent, t) ==
    IF script = FileUpload
        THEN [files |-> << >>, agent |-> agent, created_at |-> IsoFormat(t)]
        ELSE [agent |-> agent, created_at |-> IsoFormat(t)]

\* (a lookup that gathers the files of every session)
GetAllFiles(ss, session_id) ==
    LET ids == CHOOSE seq \in [1..Cardinality(DOMAIN ss) -> DOMAIN ss] :
                   \A s \in DOMAIN ss : \E n \in DOMAIN seq : seq[n] = s
        RECURSIVE Gather(_)
        Gather(n) == IF n = 0 THEN << >> ELSE Gather(n - 1) \o ss[ids[n]].files
    IN  Gather(Len(ids))

\* get_session_files(session_id)
GetSessionFiles(ss, session_id) ==
    IF session_id \in DOMAIN ss THEN ss[session_id].files ELSE << >>

\* list_uploaded_files(session_id)
ListUploadedFiles(ss, session_id) ==
    LET fs == GetSessionFiles(ss, session_id)
    IN  IF fs = << >>
            THEN [kind |-> "No files have been uploaded yet."]
            ELSE [kind |-> "Uploaded files:",
                  lines |-> [n \in 1..Len(fs) |->
                               [n |-> n, filename |-> fs[n].filename,
                                file_type |-> fs[n].file_type,
                                uploaded_at |-> fs[n].uploaded_at]]]

\* get_file_content(session_id, filename): the first file of that name
GetFileContent(ss, session_id, filename) ==
    LET fs == GetSessionFiles(ss, session_id)
        hits == {n \in 1..Len(fs) : StrLower(fs[n].filename) = StrLower(filename)}
    IN  IF hits = {}
            THEN [kind |-> "not found", filename |-> filename]
            ELSE [kind |-> "Content of", filename |-> filename,
                  content |-> fs[CHOOSE n \in hits : \A m \in hits : n <= m].content]

\* any(word in text.lower() for word in query_lower.split())
AnyWordIn(query, s) ==
    \E n \in 1..Len(StrSplit(StrLower(query))) :
        Contains(StrLower(s), StrSplit(StrLower(query))[n])

\* the stripped lines of a content that hold a word of the query
RelevantLines(query, content) ==
    LET lines == SplitLines(content)
        RECURSIVE Pick(_)
        Pick(n) ==
            IF n > Len(lines) THEN << >>
            ELSE IF AnyWordIn(query, lines[n])
                THEN << StrStrip(lines[n]) >> \o Pick(n + 1)
                ELSE Pick(n + 1)
    IN  Pick(1)

\* search_files(session_id, query)
SearchFiles(ss, session_id, query) ==
    LET fs == GetSessionFiles(ss, session_id)
        RECURSIVE Results(_)
        Results(n) ==
            IF n > Len(fs) THEN << >>
            ELSE IF AnyWordIn(query, fs[n].content)
                    /\ RelevantLines(query, fs[n].content) # << >>
                THEN << [filename |-> fs[n].filename,
                         excerpt |-> FirstN(RelevantLines(query, fs[n].content),
                                            ExcerptLines)] >>
                     \o Results(n + 1)
                ELSE Results(n + 1)
    IN  IF fs = << >>
            THEN [kind |-> "No files have been uploaded yet."]
        ELSE IF Results(1) = << >>
            THEN [kind |-> "No relevant information found", query |-> query]
        ELSE [kind |-> "results", results |-> Results(1)]

\* a tool call the agent makes while it answers: list_files(),
\* get_file(filename) or search(query) of create_agent, each passing on the
\* session_id of its closure
ToolResult(ss, session_id, call) ==
    IF call.name = "list_files" THEN ListUploadedFiles(ss, session_id)
    ELSE IF call.name = "get_file"
        THEN GetFileContent(ss, session_id, call.filename)
    ELSE IF call.name = "search" THEN SearchFiles(ss, session_id, call.query)
    ELSE [kind |-> "no tool called"]

\* the file entries that call has read
ToolRead(ss, session_id, call) ==
    IF call.name = "none" THEN << >> ELSE GetSessionFiles(ss, session_id)

\* Path(filename).suffix.lower()
Suffix(filename) ==
    LET dots == {n \in 2..Len(filename) : filename[n] = "."}
    IN  IF dots = {} \/ filename[Len(filename)] = "." THEN << >>
        ELSE StrLower(SubSeq(filename,
                             CHOOSE n \in dots : \A m \in dots : m <= n,
                             Len(filename)))

Txt == <<".", "t", "x", "t">>

Pdf == <<".", "p", "d", "f">>

Docs == { <<".", "d", "o", "c", "x">>, <<".", "d", "o", "c">> }

Images ==
    { <<".", "p", "n", "g">>, <<".", "j", "p", "g">>, <<".", "j", "p", "e", "g">>,
      <<".", "g", "i", "f">>, <<".", "w", "e", "b", "p">> }

\* the bytes of an upload: text in UTF-8, or bytes that are no text
Undecodable == [utf8 |-> FALSE]

\* extract_text_from_txt, _pdf, _docx and analyze_image_file: the text found
\* in the file, or a string that reports the failure
Extracted(bytes) ==
    IF bytes.utf8 THEN bytes.text ELSE << "Error reading file" >>

\* process_uploaded_file(file_path, filename), the file read back from dsk
ProcessUploadedFile(dsk, file_path, filename, t) ==
    LET ext == Suffix(filename)
        known == ext = Txt \/ ext = Pdf \/ ext \in Docs \/ ext \in Images
    IN  [filename |-> filename,
         file_path |-> file_path,
         file_type |-> IF ext = Txt THEN "text"
                       ELSE IF ext = Pdf THEN "pdf"
                       ELSE IF ext \in Docs THEN "document"
                       ELSE IF ext \in Images THEN "image"
                       ELSE "unknown",
         extension |-> ext,
         content |-> IF known THEN Extracted(dsk.files[file_path])
                     ELSE << "Unsupported file type: " >> \o ext,
         uploaded_at |-> IsoFormat(t)]

\* uvicorn.run(app) of one of the two scripts
Serve(script) ==
    /\ server = None
    /\ server' = script
    /\ web' = [name |-> "serve"]
    /\ UNCHANGED <<sessions, agents, pending, disk>>
    /\ UNCHANGED <<oldVars, execVars, apiVars, conVars, chunkVars>>

\* (the membership test made when the request was received)
KnownOnReceipt(ss, request) == request.known

\* session_id in sessions, as the handler finds it when it runs the test
SessionKnown(ss, request) == request.session_id \in DOMAIN ss

\* JSONResponse({"error": str(e)}, status_code=500) of chat
ChatError(session_id, message, e) ==
    [name |-> "chat", session_id |-> session_id, message |-> message,
     status |-> 500, body |-> [error |-> e],
     agent |-> 0, tool |-> [kind |-> "no tool called"], read |-> << >>]

\* the body of chat, which has no await: it runs from its first line to
\* its return with no other coroutine in between.  request holds
\* {message, session_id}; made: Agent(...) returns an object (it raises
\* otherwise); answer: what the agent call does, and the tool call it makes
\* on its way.
ChatHandler(request, made, answer) ==
    LET session_id == request.session_id
        message == request.message
    IN
    /\ server # None
    /\ IF ~SessionKnown(sessions, request) /\ ~made
          THEN /\ web' = ChatError(session_id, message, "Agent() raised")
               /\ UNCHANGED <<sessions, agents>>
          ELSE LET known == SessionKnown(sessions, request)
                   ss == IF known THEN sessions
                         ELSE DictSet(sessions, session_id,
                                      NewSession(server, Len(agents) + 1, clock))
                   objects == IF known THEN agents
                              ELSE Append(agents, CreateAgent(server, session_id))
                   session_agent == ss[session_id]["agent"]
               IN  /\ Len(objects[session_agent].messages) < MaxTurns
                   /\ sessions' = ss
                   /\ agents' = [objects EXCEPT ![session_agent].messages =
                                    Append(@, [content |-> message,
                                               from |-> session_id])]
                   /\ web' =
                        IF answer.raises
                            THEN [ChatError(session_id, message, "agent raised")
                                    EXCEPT !.agent = session_agent]
                            ELSE [name |-> "chat", session_id |-> session_id,
                                  message |-> message,
                                  status |-> 200,
                                  body |-> [response |-> ResponseText(answer.response),
                                            session_id |-> session_id],
                                  agent |-> session_agent,
                                  known_on_receipt |-> request.known,
                                  tool |-> ToolResult(ss,
                                              objects[session_agent].session_id,
                                              answer.call),
                                  read |-> ToolRead(ss,
                                              objects[session_agent].session_id,
                                              answer.call)]
    /\ UNCHANGED <<server, disk>>
    /\ UNCHANGED <<oldVars, execVars, apiVars, conVars, chunkVars>>

\* POST /chat with {message, session_id}, received and run in one step
Chat(session_id, message, made, answer) ==
    /\ ChatHandler([session_id |-> session_id, message |-> message,
                    known |-> session_id \in DOMAIN sessions], made, answer)
    /\ UNCHANGED pending

\* POST /chat is received: the framework reads the body of the request
\* before it calls chat, and other requests are served meanwhile
ChatReceive(session_id, message) ==
    /\ server # None
    /\ Cardinality(pending) < MaxInFlight
    /\ \A c \in pending :
          "message" \in DOMAIN c
              => <<c.session_id, c.message>> # <<session_id, message>>
    /\ pending' = pending \cup
          {[session_id |-> session_id, message |-> message,
            known |-> session_id \in DOMAIN sessions]}
    /\ UNCHANGED <<server, sessions, agents, disk, web>>
    /\ UNCHANGED <<oldVars, execVars, apiVars, conVars, chunkVars>>

\* chat runs for a request received earlier
ChatRun(c, made, answer) ==
    /\ c \in pending
    /\ pending' = pending \ {c}
    /\ ChatHandler(c, made, answer)

\* the /upload requests in flight
Uploading == {u \in pending : "filename" \in DOMAIN u}

\* the /chat requests in flight
Chatting == {c \in pending : "message" \in DOMAIN c}

\* POST /upload, up to "content = await file.read()": the session directory
\* is made and the coroutine waits for the bytes
UploadFileRead(session_id, filename, bytes) ==
    /\ server = FileUpload
    /\ Cardinality(Uploading) < MaxPending
    /\ Len(GetSessionFiles(sessions, session_id))
          + Cardinality({u \in Uploading : u.session_id = session_id}) < MaxFiles
    /\ \A u \in Uploading :
          <<u.session_id, u.filename, u.bytes>> # <<session_id, filename, bytes>>
    /\ disk' = [disk EXCEPT !.dirs = @ \cup {session_id}]
    /\ pending' = pending \cup
          {[session_id |-> session_id, filename |-> filename, bytes |-> bytes,
            known |-> session_id \in DOMAIN sessions]}
    /\ UNCHANGED <<server, sessions, agents, web>>
    /\ UNCHANGED <<oldVars, execVars, apiVars, conVars, chunkVars>>

\* JSONResponse({"success": False, "error": str(e)}, status_code=500)
UploadError(u, e) ==
    [name |-> "upload", session_id |-> u.session_id, filename |-> u.filename,
     status |-> 500, body |-> [success |-> FALSE, error |-> e]]

\* POST /upload from the await on: the file is written, read back and
\* processed, and its entry is appended to the session's files.  stored: the
\* write succeeds; made: create_agent returns an object.
UploadFileStore(u, stored, made) ==
    /\ u \in pending
    /\ pending' = pending \ {u}
    /\ LET file_path == <<u.session_id, u.filename>>
           dsk == [disk EXCEPT !.files = DictSet(@, file_path, u.bytes)]
           file_info == ProcessUploadedFile(dsk, file_path, u.filename, clock)
           known == SessionKnown(sessions, u)
           ss == IF known THEN sessions
                 ELSE DictSet(sessions, u.session_id,
                              NewSession(server, Len(agents) + 1, clock))
       IN  IF ~stored
               THEN /\ web' = UploadError(u, "open() raised")
                    /\ UNCHANGED <<sessions, agents, disk>>
           ELSE IF ~known /\ ~made
               THEN /\ disk' = dsk
                    /\ web' = UploadError(u, "Agent() raised")
                    /\ UNCHANGED <<sessions, agents>>
           ELSE /\ disk' = dsk
                /\ agents' = IF known THEN agents
                             ELSE Append(agents, CreateAgent(server, u.session_id))
                /\ sessions' = [ss EXCEPT ![u.session_id].files =
                                   Append(@, file_info)]
                /\ web' = [name |-> "upload", session_id |-> u.session_id,
                           filename |-> u.filename, status |-> 200,
                           body |-> [success |-> TRUE, file_info |-> file_info]]
    /\ UNCHANGED server
    /\ UNCHANGED <<oldVars, execVars, apiVars, conVars, chunkVars>>

\* the requests explored
SessionIds == {"default", "s2"}

ChatTexts == {"hello"}

Filenames == { <<"A", ".", "T", "X", "T">> }

Uploads == { [utf8 |-> TRUE, text |-> <<"a", " ", "B">>], Undecodable }

ToolCalls ==
    {[name |-> "none"], [name |-> "list_files"]}
    \cup [name : {"get_file"}, filename : { <<"a", ".", "t", "x", "t">> }]
    \cup [name : {"search"}, query : { <<"b">> }]

\* what an agent call does: it raises, it returns None, or it returns a
\* result, in the upload server after a tool call
Answers(script) ==
    [raises : {TRUE}, response : {NoResponse}, call : {[name |-> "none"]}]
    \cup [raises : {FALSE}, response : {NoResponse}, call : {[name |-> "none"]}]
    \cup [raises : {FALSE},
          response : {[kind |-> "AgentResult", text |-> "Hi!"]},
          call : IF script = FileUpload THEN ToolCalls ELSE {[name |-> "none"]}]

\* Agent(...) is reached only for a session_id that has no entry
Constructions(session_id) ==
    IF session_id \in DOMAIN sessions THEN {TRUE} ELSE BOOLEAN

DoServe == \E script \in {Chatbot, FileUpload} : Serve(script)

DoChat ==
    \E session_id \in SessionIds, message \in ChatTexts :
        \E made \in Constructions(session_id), answer \in Answers(server) :
            Chat(session_id, message, made, answer)

DoUploadFileRead ==
    \E session_id \in SessionIds, filename \in Filenames, bytes \in Uploads :
        UploadFileRead(session_id, filename, bytes)

DoUploadFileStore ==
    \E u \in Uploading, stored \in BOOLEAN :
        \E made \in Constructions(u.session_id) : UploadFileStore(u, stored, made)

NextWeb ==
    \/ DoServe
    \/ DoChat
    \/ DoUploadFileRead
    \/ DoUploadFileStore

SpecWeb == InitAll /\ [][NextWeb]_vars

\* the /chat requests that are in flight together: two for one session_id
\* and one for another
ConcurrentChats ==
    { <<"default", "hello">>, <<"default", "again">>, <<"s2", "hello">> }

\* what an agent call does when requests are in flight together
ConcurrentAnswers ==
    [raises : {FALSE}, response : {[kind |-> "AgentResult", text |-> "Hi!"]},
     call : {[name |-> "none"]}]

DoChatReceive ==
    \E chat \in ConcurrentChats : ChatReceive(chat[1], chat[2])

DoChatRun ==
    \E c \in Chatting, answer \in ConcurrentAnswers :
        \E made \in Constructions(c.session_id) : ChatRun(c, made, answer)

\* an /upload among them
DoUploadFileReceive ==
    \E session_id \in SessionIds, filename \in Filenames :
        UploadFileRead(session_id, filename, [utf8 |-> TRUE, text |-> <<"a", " ", "B">>])

\* the two servers with requests in flight together
NextConcurrent ==
    \/ DoServe
    \/ DoChatReceive
    \/ DoChatRun
    \/ DoUploadFileReceive
    \/ DoUploadFileStore

SpecConcurrent == InitAll /\ [][NextConcurrent]_vars

----------------------------------------------------------------------------
(* The external-API tools (14_external_apis.py) *)

\* JSON values as response.json() returns them
Obj(fields) == [type |-> "dict", fields |-> fields]

Arr(items) == [type |-> "list", items |-> items]

JStr(s) == [type |-> "str", string |-> s]

JNum(n) == [type |-> "number", number |-> n]

\* a str that strptime(..., '%Y-%m-%d') parses, to the day it names
JDate(day) == [type |-> "str", string |-> "%Y-%m-%d", day |-> day]

\* a body that is no JSON text
NotJson == [type |-> "not json"]

IsObj(v) == v.type = "dict"

IsArr(v) == v.type = "list"

\* v[k] of a dict returns a value (it raises KeyError or TypeError otherwise)
Has(v, k) == IsObj(v) /\ k \in DOMAIN v.fields

\* v[0] returns a value
HasFirst(v) == IsArr(v) /\ v.items # << >>

\* bool(v)
Truthy(v) ==
    IF IsObj(v) THEN v.fields # << >>
    ELSE IF IsArr(v) THEN v.items # << >>
    ELSE IF v.type = "str" THEN v.string # ""
    ELSE v.number # 0

\* str.upper()
CharUpper(c) ==
    IF \E n \in 1..26 : AsciiLower[n] = c
        THEN AsciiUpper[CHOOSE n \in 1..26 : AsciiLower[n] = c]
        ELSE c

StrUpper(s) == [n \in 1..Len(s) |-> CharUpper(s[n])]

\* (a fetch that does not look at the status of the reply)
FetchUnchecked(reply) ==
    IF reply.fault # "none" THEN [raised |-> TRUE, e |-> reply.fault]
    ELSE IF reply.body = NotJson THEN [raised |-> TRUE, e |-> "JSONDecodeError"]
    ELSE [raised |-> FALSE, data |-> reply.body]

\* requests.get(url, timeout=10); response.raise_for_status(); response.json()
Fetch(reply) ==
    IF reply.fault # "none" THEN [raised |-> TRUE, e |-> reply.fault]
    ELSE IF reply.status >= 400 THEN [raised |-> TRUE, e |-> "HTTPError"]
    ELSE IF reply.body = NotJson THEN [raised |-> TRUE, e |-> "JSONDecodeError"]
    ELSE [raised |-> FALSE, data |-> reply.body]

\* the reading of the weather reply succeeds
WeatherReads(data) ==
    /\ Has(data, "current_condition")
    /\ HasFirst(data.fields["current_condition"])
    /\ LET current == data.fields["current_condition"].items[1]
       IN  /\ \A k \in {"temp_C", "temp_F", "weatherDesc", "humidity",
                        "windspeedKmph", "FeelsLikeC"} : Has(current, k)
           /\ HasFirst(current.fields["weatherDesc"])
           /\ Has(current.fields["weatherDesc"].items[1], "value")

\* get_weather(city)
GetWeather(city, reply) ==
    LET got == Fetch(reply)
    IN  IF got.raised \/ ~WeatherReads(got.data)
            THEN [kind |-> "Error getting weather: "]
            ELSE [kind |-> "Weather in ", city |-> city,
                  current |-> got.data.fields["current_condition"].items[1]]

\* the articles the headlines are made from
Articles(data) ==
    IF Has(data, "articles") THEN data.fields["articles"] ELSE Arr(<< >>)

\* get_news_headlines(topic), once the key is known to be set
NewsHeadlines(topic, reply) ==
    LET got == Fetch(reply)
        data == got.data
        articles == FirstN(Articles(data).items, NewsCount)
    IN  IF got.raised \/ ~IsObj(data)
            THEN [kind |-> "Error getting news: "]
        ELSE IF ~Has(data, "status") \/ data.fields["status"] # JStr("ok")
            THEN [kind |-> "Error: ",
                  message |-> IF Has(data, "message") THEN data.fields["message"]
                              ELSE JStr("Unknown error")]
        ELSE IF ~Truthy(Articles(data))
            THEN [kind |-> "No news found for topic: ", topic |-> topic]
        ELSE IF ~IsArr(Articles(data))
                \/ \E n \in 1..Len(articles) :
                      ~ /\ Has(articles[n], "title")
                        /\ Has(articles[n], "source")
                        /\ Has(articles[n].fields["source"], "name")
                        /\ Has(articles[n], "url")
            THEN [kind |-> "Error getting news: "]
        ELSE [kind |-> "Latest news:", topic |-> topic,
              headlines |-> [n \in 1..Len(articles) |->
                                articles[n].fields["title"]]]

\* to_curr in data['rates']: a key of a dict, an item of a list, a part of a
\* str; it raises TypeError for a number
RateListed(rates, to_curr) ==
    IF IsObj(rates) THEN to_curr \in DOMAIN rates.fields
    ELSE IF IsArr(rates)
        THEN \E n \in 1..Len(rates.items) : rates.items[n] = JStr(to_curr)
    ELSE Contains(rates.string, to_curr)

\* get_exchange_rate(from_currency, to_currency)
GetExchangeRate(from_currency, to_currency, reply) ==
    LET got == Fetch(reply)
        data == got.data
        to_curr == StrUpper(to_currency)
    IN  IF got.raised \/ ~Has(data, "rates") \/ data.fields["rates"].type = "number"
            THEN [kind |-> "Error getting exchange rate: "]
        ELSE IF ~RateListed(data.fields["rates"], to_curr)
            THEN [kind |-> "Currency not found", currency |-> to_curr]
        ELSE IF ~IsObj(data.fields["rates"])
                \/ data.fields["rates"].fields[to_curr].type # "number"
                \/ ~Has(data, "date")
            THEN [kind |-> "Error getting exchange rate: "]
        ELSE [kind |-> "1 FROM = rate TO", from |-> StrUpper(from_currency),
              rate |-> data.fields["rates"].fields[to_curr], to |-> to_curr]

\* the for loop of get_public_holidays: the holidays on or after today, five
\* at most; an entry the loop cannot read raises
Upcoming(holidays, today) ==
    LET RECURSIVE Walk(_, _)
        Walk(n, upcoming) ==
            IF n > Len(holidays) \/ Len(upcoming) >= HolidayCount
                THEN [raised |-> FALSE, upcoming |-> upcoming]
            ELSE IF ~Has(holidays[n], "date")
                    \/ "day" \notin DOMAIN holidays[n].fields["date"]
                THEN [raised |-> TRUE]
            ELSE IF holidays[n].fields["date"].day < today
                THEN Walk(n + 1, upcoming)
            ELSE IF ~Has(holidays[n], "localName") \/ ~Has(holidays[n], "name")
                THEN [raised |-> TRUE]
            ELSE Walk(n + 1, Append(upcoming, holidays[n].fields["localName"]))
    IN  Walk(1, << >>)

\* get_public_holidays(country_code, year)
GetPublicHolidays(country_code, year, reply, today) ==
    LET got == Fetch(reply)
        holidays == got.data
    IN  IF got.raised THEN [kind |-> "Error getting holidays: "]
        ELSE IF ~Truthy(holidays)
            THEN [kind |-> "No holidays found", country |-> StrUpper(country_code)]
        ELSE IF ~IsArr(holidays) \/ Upcoming(holidays.items, today).raised
            THEN [kind |-> "Error getting holidays: "]
        ELSE IF Upcoming(holidays.items, today).upcoming = << >>
            THEN [kind |-> "No upcoming holidays found",
                  country |-> StrUpper(country_code)]
        ELSE [kind |-> "Upcoming holidays in ", country |-> StrUpper(country_code),
              upcoming |-> Upcoming(holidays.items, today).upcoming]

\* d.get(k, {}) of a dict d
GetOr(d, k) == IF k \in DOMAIN d.fields THEN d.fields[k] ELSE Obj(<< >>)

\* search_wikipedia(query)
SearchWikipedia(query, reply) ==
    LET got == Fetch(reply)
        data == got.data
    IN  IF got.raised \/ ~IsObj(data)
            \/ ~IsObj(GetOr(data, "content_urls"))
            \/ ~IsObj(GetOr(GetOr(data, "content_urls"), "desktop"))
            THEN [kind |-> "Error searching Wikipedia: "]
            ELSE [kind |-> "Wikipedia: ",
                  title |-> IF Has(data, "title") THEN data.fields["title"]
                            ELSE JStr(query),
                  extract |-> IF Has(data, "extract") THEN data.fields["extract"]
                              ELSE JStr("No summary available")]

\* the tools and the arguments explored
ApiCalls ==
    [name : {"get_weather"}, city : {"Paris"}]
    \cup [name : {"get_news_headlines"}, topic : {"technology"}]
    \cup [name : {"get_exchange_rate"}, from_currency : { <<"u", "s", "d">> },
          to_currency : { <<"e", "u", "r">>, <<"X", "X", "X">> }]
    \cup [name : {"get_public_holidays"}, country_code : { <<"u", "s">> },
          year : {2025}]
    \cup [name : {"search_wikipedia"}, query : {"Python"}]

\* the URL a tool asks for
Url(call) ==
    IF call.name = "get_weather" THEN <<"https://wttr.in/", call.city>>
    ELSE IF call.name = "get_news_headlines"
        THEN <<"https://newsapi.org/v2/everything", call.topic>>
    ELSE IF call.name = "get_exchange_rate"
        THEN <<"https://api.exchangerate-api.com/v4/latest/",
               StrUpper(call.from_currency)>>
    ELSE IF call.name = "get_public_holidays"
        THEN <<"https://date.nager.at/api/v3/PublicHolidays/", call.year,
               StrUpper(call.country_code)>>
    ELSE <<"https://en.wikipedia.org/api/rest_v1/page/summary/", call.query>>

\* what a tool returns once it has its reply
Answered(call, reply, today) ==
    IF call.name = "get_weather" THEN GetWeather(call.city, reply)
    ELSE IF call.name = "get_news_headlines" THEN NewsHeadlines(call.topic, reply)
    ELSE IF call.name = "get_exchange_rate"
        THEN GetExchangeRate(call.from_currency, call.to_currency, reply)
    ELSE IF call.name = "get_public_holidays"
        THEN GetPublicHolidays(call.country_code, call.year, reply, today)
    ELSE SearchWikipedia(call.query, reply)

\* load_dotenv() at import: NEWS_API_KEY stays unset, or is set, maybe to ""
LoadDotenv(value) ==
    /\ api.name = "init"
    /\ environ' = value
    /\ api' = [name |-> "load_dotenv"]
    /\ UNCHANGED <<oldVars, execVars, webVars, conVars, chunkVars>>

\* one call of a tool; reply is what the network does with its request
CallTool(call, reply) ==
    /\ api.name \in {"load_dotenv", "returned"}
    /\ IF call.name = "get_news_headlines" /\ environ \in {None, ""}
          THEN api' = [name |-> call.name, call |-> call, requests |-> << >>,
                       result |-> [kind |-> "NewsAPI key not found."]]
          ELSE api' = [name |-> call.name, call |-> call,
                       requests |-> << Url(call) >>, reply |-> reply,
                       result |-> Answered(call, reply, clock)]
    /\ UNCHANGED environ
    /\ UNCHANGED <<oldVars, execVars, webVars, conVars, chunkVars>>

\* the agent takes the string the tool returned
ApiReturn ==
    /\ api.name \notin {"init", "load_dotenv", "returned"}
    /\ api' = [name |-> "returned"]
    /\ UNCHANGED environ
    /\ UNCHANGED <<oldVars, execVars, webVars, conVars, chunkVars>>

\* the replies explored
WeatherBody ==
    Obj([k \in {"current_condition"} |->
           Arr(<< Obj([f \in {"temp_C", "temp_F", "weatherDesc", "humidity",
                              "windspeedKmph", "FeelsLikeC"} |->
                         IF f = "weatherDesc"
                             THEN Arr(<< Obj([v \in {"value"} |-> JStr("Sunny")]) >>)
                             ELSE JStr("20")]) >>)])

Article(keys) ==
    Obj([k \in keys |-> IF k = "source" THEN Obj([n \in {"name"} |-> JStr("BBC")])
                        ELSE JStr(k)])

NewsBody(articles) ==
    Obj([k \in {"status", "articles"} |->
           IF k = "status" THEN JStr("ok") ELSE Arr(articles)])

NewsRefused ==
    Obj([k \in {"status", "message"} |->
           IF k = "status" THEN JStr("error") ELSE JStr("apiKeyInvalid")])

RatesBody ==
    Obj([k \in {"rates", "date"} |->
           IF k = "rates" THEN Obj([c \in { <<"E", "U", "R">> } |-> JNum(9)])
           ELSE JStr("2025-10-05")])

Holiday(date) ==
    Obj([k \in {"date", "localName", "name"} |->
           IF k = "date" THEN date ELSE JStr(k)])

Bodies ==
    { NotJson, Obj(<< >>), Arr(<< >>), WeatherBody,
      NewsBody(<< Article({"title", "source", "url"}) >>),
      NewsBody(<< Article({"source", "url"}) >>),
      NewsBody(<< >>),
      NewsRefused,
      RatesBody,
      Obj([k \in {"rates"} |-> Arr(<< >>)]),
      Arr(<< Holiday(JDate(-1)), Holiday(JDate(1)) >>),
      Arr(<< Holiday(JDate(-1)) >>),
      Arr(<< Holiday(JStr("soon")) >>),
      Obj([k \in {"title", "extract"} |-> JStr(k)]),
      Obj([k \in {"content_urls"} |-> JStr("https://en.wikipedia.org")]) }

Replies ==
    [fault : {"ConnectionError", "Timeout"}, status : {0}, body : {NotJson}]
    \cup [fault : {"none"}, status : {200, 404, 500}, body : Bodies]

DoLoadDotenv == \E value \in {None, "", "key"} : LoadDotenv(value)

DoCallTool == \E call \in ApiCalls, reply \in Replies : CallTool(call, reply)

NextApi ==
    \/ DoLoadDotenv
    \/ DoCallTool
    \/ ApiReturn

SpecApi == InitAll /\ [][NextApi]_vars

----------------------------------------------------------------------------
(* The console chat: 08_console_chat.py *)

\* the words that end the conversation
ExitWords == { <<"e", "x", "i", "t">>, <<"q", "u", "i", "t">> }

\* the same test without lower()
ExitsAsTyped(user_input) == user_input \in ExitWords

\* user_input.lower() in ['exit', 'quit']
Exits(user_input) == StrLower(user_input) \in ExitWords

\* agent = Agent() and the two banner lines; Agent() may raise, and then the
\* loop is never entered
ConsoleStart(made) ==
    /\ console.pc = "start"
    /\ console' = IF made
                    THEN [pc |-> "input", read |-> << >>, calls |-> << >>,
                          printed |-> << "=== Strands Agent Chat ===" >>]
                    ELSE [pc |-> "failed"]
    /\ UNCHANGED <<oldVars, execVars, webVars, apiVars, chunkVars>>

\* one pass of the while loop. event is what input() does: it returns a line
\* or raises; outcome is what agent(user_input) does when it is called
ConsoleLoop(event, outcome) ==
    /\ console.pc = "input"
    /\ Len(console.read) < MaxInputs
    /\ IF "raises" \in DOMAIN event
          THEN console' = [console EXCEPT !.pc = "raised"]
       ELSE LET user_input == StrStrip(event.line)
                read == Append(console.read, event.line)
            IN  IF Exits(user_input)
                    THEN console' = [console EXCEPT
                            !.pc = "done", !.read = read,
                            !.printed = Append(@, "Goodbye!")]
                ELSE IF user_input = << >>
                    THEN console' = [console EXCEPT !.read = read]
                ELSE IF outcome = "returns"
                    THEN console' = [console EXCEPT
                            !.read = read,
                            !.calls = Append(@, user_input),
                            !.printed = Append(@, "Agent: ")]
                ELSE IF outcome = "Exception"
                    THEN console' = [console EXCEPT
                            !.read = read,
                            !.calls = Append(@, user_input),
                            !.printed = Append(@, "Error: ")]
                ELSE console' = [console EXCEPT
                            !.pc = "raised", !.read = read,
                            !.calls = Append(@, user_input)]
    /\ UNCHANGED <<oldVars, execVars, webVars, apiVars, chunkVars>>

\* the lines typed
Lines ==
    { <<"e", "x", "i", "t">>, <<" ", "Q", "u", "I", "t", " ">>,
      << >>, <<" ", "\t">>, <<"h", "i">>, <<" ", "E", "x", "i", "t", "s">>,
      <<"q", "u", "i", "t", " ", "i", "t">> }

\* input() returns a line, or raises at the end of the input or on Ctrl-C
Events ==
    [line : Lines] \cup [raises : {"EOFError", "KeyboardInterrupt"}]

\* agent(user_input) returns, raises an Exception, or is interrupted
Outcomes == {"returns", "Exception", "KeyboardInterrupt"}

DoConsoleStart == \E made \in BOOLEAN : ConsoleStart(made)

DoConsoleLoop ==
    \E event \in Events, outcome \in Outcomes : ConsoleLoop(event, outcome)

NextConsole ==
    \/ DoConsoleStart
    \/ DoConsoleLoop

SpecConsole == InitAll /\ [][NextConsole]_vars

----------------------------------------------------------------------------
(* DocumentChunker.chunk_text: 12_rag_pipeline.py *)

Maximum(a, b) == IF a >= b THEN a ELSE b

Minimum(a, b) == IF a <= b THEN a ELSE b

\* an index of a slice as Python reads it: a negative one counts from the
\* end, and either is clamped to the text
SliceIndex(n, length) ==
    IF n < 0 THEN Maximum(length + n, 0) ELSE Minimum(n, length)

\* text[start:end]
TextSlice(text, start, end) ==
    LET lo == SliceIndex(start, Len(text))
        hi == SliceIndex(end, Len(text))
    IN  IF lo >= hi THEN << >> ELSE SubSeq(text, lo + 1, hi)

\* s.rfind(ch): the highest index of ch in s, from 0, or -1
RFind(s, ch) ==
    LET found == {n \in 1..Len(s) : s[n] = ch}
    IN  IF found = {} THEN -1
        ELSE (CHOOSE n \in found : \A m \in found : m <= n) - 1

\* the end of a chunk with no search for a sentence boundary
EndOfWindow(text, start, chunk_size) == start + chunk_size

\* the end of the chunk that starts at start: the end of the window, moved
\* back to the last '.' or newline of a window that stops short of the text
EndOfChunk(text, start, chunk_size) ==
    LET end == start + chunk_size
        last_period == RFind(TextSlice(text, start, end), ".")
        last_newline == RFind(TextSlice(text, start, end), "\n")
        boundary == Maximum(last_period, last_newline)
    IN  IF end < Len(text) /\ boundary > 0 THEN start + boundary + 1 ELSE end

\* chunk_text(text, chunk_size, overlap) up to the while
CallChunkText(text, chunk_size, overlap) ==
    /\ chunker.pc = "idle"
    /\ chunker' = [pc |-> "while", text |-> text, chunk_size |-> chunk_size,
                   overlap |-> overlap, start |-> 0, chunks |-> << >>,
                   windows |-> << >>]
    /\ UNCHANGED <<oldVars, execVars, webVars, apiVars, conVars>>

\* one pass of the while loop; windows keeps the start and the end of every
\* pass, chunks is the list the function builds
ChunkTextLoop ==
    /\ chunker.pc = "while"
    /\ chunker.start < Len(chunker.text)
    /\ Len(chunker.windows) < MaxWindows
    /\ LET text == chunker.text
           start == chunker.start
           end == EndOfChunk(text, start, chunker.chunk_size)
           chunk_text == StrStrip(TextSlice(text, start, end))
       IN  chunker' = [chunker EXCEPT
              !.chunks = IF chunk_text # << >>
                            THEN Append(@, [text |-> chunk_text, start |-> start,
                                            end |-> end,
                                            length |-> Len(chunk_text)])
                            ELSE @,
              !.windows = Append(@, [start |-> start, end |-> end]),
              !.start = IF end < Len(text) THEN end - chunker.overlap ELSE end]
    /\ UNCHANGED <<oldVars, execVars, webVars, apiVars, conVars>>

\* return chunks
ChunkTextReturn ==
    /\ chunker.pc = "while"
    /\ chunker.start >= Len(chunker.text)
    /\ chunker' = [chunker EXCEPT !.pc = "returned"]
    /\ UNCHANGED <<oldVars, execVars, webVars, apiVars, conVars>>

\* the caller has the list
ChunkTextDone ==
    /\ chunker.pc = "returned"
    /\ chunker' = [pc |-> "idle"]
    /\ UNCHANGED <<oldVars, execVars, webVars, apiVars, conVars>>

\* the characters of the texts explored
ChunkChars == {"a", ".", "\n", " "}

RECURSIVE TextsOver(_, _)
TextsOver(chars, length) ==
    IF length = 0 THEN { << >> }
    ELSE LET shorter == TextsOver(chars, length - 1)
         IN  shorter \cup {Append(t, c) : t \in shorter, c \in chars}

ChunkTexts == TextsOver(ChunkChars, MaxChunkLen)

\* longer texts of letters and periods
LongTexts == TextsOver({"a", "."}, MaxLongLen)

DoChunkText ==
    \E text \in ChunkTexts, chunk_size \in 1..MaxChunkSize :
        \E overlap \in 0..(chunk_size - 1) :
            CallChunkText(text, chunk_size, overlap)

DoChunkLongText ==
    \E text \in LongTexts, chunk_size \in 1..MaxLongSize :
        \E overlap \in 0..(chunk_size - 1) :
            CallChunkText(text, chunk_size, overlap)

NextChunk ==
    \/ DoChunkText
    \/ ChunkTextLoop
    \/ ChunkTextReturn
    \/ ChunkTextDone

SpecChunk == InitAll /\ [][NextChunk]_vars

NextChunkLong ==
    \/ DoChunkLongText
    \/ ChunkTextLoop
    \/ ChunkTextReturn
    \/ ChunkTextDone

SpecChunkLong == InitAll /\ [][NextChunkLong]_vars

----------------------------------------------------------------------------
(* Properties of the memory manager *)

Mutators == {"add_preference", "add_fact", "add_conversation", "clear_user_memory"}

History(i) == memory[i].conversation_history

\* C1: from an empty memory on, conversation_history never holds more than 50
\* entries and is the last min(n, 50) of the n entries appended since the
\* memory was last empty (fresh or cleared), in the order they were appended.
C1_HistoryIsLast50 ==
    Live(Solo) =>
        /\ Len(History(Solo)) <= HistoryLimit
        /\ History(Solo) = LastN(appended, HistoryLimit)

\* an add_conversation has just dropped the oldest entry
C1_Witness ==
    /\ op.name = "add_conversation"
    /\ Len(appended) > HistoryLimit
    /\ Len(History(Solo)) = HistoryLimit

\* C2: when add_preference, add_fact, add_conversation or clear_user_memory
\* returns, the user's file holds the JSON text of the manager's whole
\* dictionary, last_interaction included.
C2_FileEqualsMemory ==
    op.name \in Mutators =>
        /\ files.main = JsonDump(memory[op.by])
        /\ JsonLoad(files.main) = memory[op.by]
        /\ memory[op.by].last_interaction = IsoFormat(clock)

\* a fact was stored over a dictionary that holds a preference and an entry
C2_Witness ==
    /\ op.name = "add_fact"
    /\ memory[Solo].preferences # EmptyDict
    /\ Len(History(Solo)) > 0
    /\ files.main.kind = "json"

\* a run of the demo starts over a file that parses
Reloads == pc = "done" /\ pc' = "user" /\ files.main.kind = "json"

\* C3 as stated: in the later session every preference, fact and conversation
\* entry of the earlier session is returned unchanged by get_preference,
\* get_fact and get_conversation_summary.
C3_EveryEntryInSummary ==
    [][Reloads =>
        /\ \A k \in Keys :
              /\ GetPreference(memory'[Solo], k) = GetPreference(memory[Solo], k)
              /\ GetFact(memory'[Solo], k) = GetFact(memory[Solo], k)
        /\ \A n \in 1..Len(History(Solo)) :
              \E l \in 1..Len(GetConversationSummary(memory'[Solo])) :
                  /\ GetConversationSummary(memory'[Solo])[l].text
                        = History(Solo)[n].message
                  /\ (GetConversationSummary(memory'[Solo])[l].role = "User")
                        <=> (History(Solo)[n].role = "user")]_vars

\* C3 as amended: the later session loads exactly the dictionary the earlier
\* one saved last; get_preference and get_fact return every stored value
\* unchanged, and get_conversation_summary returns what it returned before:
\* the last 10 entries only, each message cut to its first 100 characters.
C3_MemoryPersists ==
    [][Reloads =>
        /\ memory'[Solo] = memory[Solo]
        /\ \A k \in Keys :
              /\ GetPreference(memory'[Solo], k) = GetPreference(memory[Solo], k)
              /\ GetFact(memory'[Solo], k) = GetFact(memory[Solo], k)
        /\ GetConversationSummary(memory'[Solo]) = GetConversationSummary(memory[Solo])
        /\ LET old == LastN(History(Solo), SummaryCount)
               new == GetConversationSummary(memory'[Solo])
           IN  /\ Len(new) = Len(old)
               /\ \A l \in 1..Len(old) :
                     new[l].text = Slice(old[l].message, SummaryChars)]_vars

\* a later run has loaded a preference, a fact and more than 10 entries
C3_Witness ==
    /\ op.name = "construct"
    /\ run >= 2
    /\ GetPreference(memory[Solo], "name") # None
    /\ GetFact(memory[Solo], "name") # None
    /\ Len(History(Solo)) > SummaryCount

\* C4: constructing a manager over a file that does not parse moves that file
\* to the .json.backup name and yields the fresh empty dictionary, and the
\* next save writes a file that parses under the original name.
C4_CorruptFileBackedUp ==
    [][/\ (files.main.kind = "garbage" /\ op'.name = "construct") =>
            /\ memory'[Solo] = FreshMemory(UserId, clock)
            /\ memory'[Solo].preferences = EmptyDict
            /\ memory'[Solo].facts = EmptyDict
            /\ memory'[Solo].conversation_history = << >>
            /\ memory'[Solo].last_interaction = None
            /\ files'.backup = files.main
            /\ files'.main = Absent
       /\ (files.main.kind = "absent" /\ op'.name \in Mutators) =>
            /\ files'.main = JsonDump(memory'[Solo])
            /\ files'.backup = files.backup]_vars

\* the broken file, which held a preference, sits under the backup name, and
\* a save has written a new file
C4_Witness ==
    /\ files.backup.kind = "garbage"
    /\ files.backup.rest.preferences # EmptyDict
    /\ files.main.kind = "json"
    /\ files.main.doc.preferences = EmptyDict
    /\ op.name = "add_fact"

\* C5: a save takes no lock and does not re-read the file: it leaves the file
\* holding the saving manager's own dictionary, whatever another manager of
\* the same user wrote there before.
C5_SaveOverwrites ==
    [][\A i \in Managers :
          (op'.by = i /\ op'.name \in Mutators) =>
              /\ files'.main = JsonDump(memory'[i])
              /\ (op'.name \in {"add_fact", "add_conversation"}) =>
                    JsonLoad(files'.main).preferences = memory[i].preferences
              /\ (op'.name \in {"add_preference", "add_conversation"}) =>
                    JsonLoad(files'.main).facts = memory[i].facts]_vars

\* lost update: A saved a preference, and after B's save the file lacks it
C5_Witness ==
    /\ Live("A")
    /\ "name" \in DOMAIN memory["A"].preferences
    /\ op.by = "B"
    /\ op.name = "add_fact"
    /\ files.main.kind = "json"
    /\ "name" \notin DOMAIN files.main.doc.preferences

----------------------------------------------------------------------------
(* Properties of the SQL tool *)

\* the first piece of a text that is not whitespace, upper-cased ("" if none)
RECURSIVE FirstWord(_)
FirstWord(q) ==
    IF q = << >> THEN ""
    ELSE IF Head(q) = " " THEN FirstWord(Tail(q))
    ELSE UpperPiece(Head(q))

BeginsWithSELECT(q) == FirstWord(q) \in {"SELECT * FROM PRODUCTS", "SELECTION"}

\* C6: a query whose stripped, upper-cased text does not begin with SELECT is
\* answered 'Only SELECT queries are allowed' without the database being
\* opened; every other query is handed to SQLite.
C6_OnlySelectPrefix ==
    sql.name = "execute" =>
        /\ ~BeginsWithSELECT(sql.query) =>
              (sql.result.kind = "Only SELECT" /\ ~sql.opened)
        /\ BeginsWithSELECT(sql.query) =>
              (sql.result.kind # "Only SELECT" /\ sql.opened)

\* a DROP behind leading whitespace was refused over a table that holds rows
C6_Witness ==
    /\ sql.name = "execute"
    /\ sql.query = << " ", "DROP TABLE products" >>
    /\ sql.result.kind = "Only SELECT"
    /\ ~sql.opened
    /\ db.products.rows # {}

\* C7: a call of execute_sql_query leaves the tables, and the rows of the
\* products and orders tables, as they were.
C7_QueryLeavesDatabase ==
    [][sql'.name = "execute" =>
          \A t \in Tables :
              /\ db'[t].exists = db[t].exists
              /\ db'[t].rows = db[t].rows]_vars

\* a text that passed the check with a DROP behind the SELECT was handed to
\* SQLite, and the table still holds its rows
C7_Witness ==
    /\ sql.name = "execute"
    /\ sql.query = << "select * from products", ";", "DROP TABLE products" >>
    /\ sql.opened
    /\ db.products.exists
    /\ db.products.rows # {}

\* C8: after setup_database the two tables hold exactly the 8 sample products
\* and the 8 sample orders, whatever they held before.
C8_SetupIsFresh ==
    sql.name = "setup" =>
        /\ ~sql.raised
        /\ db.products = [exists |-> TRUE, rows |-> SampleProducts]
        /\ db.orders = [exists |-> TRUE, rows |-> SampleOrders]
        /\ {r[1] : r \in db.products.rows} = 1..Cardinality(SampleProducts)
        /\ {r[1] : r \in db.orders.rows} = 1..Cardinality(SampleOrders)

\* setup ran over tables that held a foreign row and lacked a sample row
C8_Witness ==
    /\ sql.name = "setup"
    /\ sql.before.products.exists
    /\ ForeignRows.products \subseteq sql.before.products.rows
    /\ ~(SampleProducts \subseteq sql.before.products.rows)
    /\ ForeignRows.orders \subseteq sql.before.orders.rows

----------------------------------------------------------------------------
(* Properties of the vector store *)

\* how many times id is listed in a list of ids
Listed(ids, id) == Cardinality({n \in 1..Len(ids) : ids[n] = id})

\* the calls that gave id a text holding word w
CallsWith(id, w) ==
    {n \in 1..Len(calls) : calls[n][1] = id /\ w \in SetOf(Split(Lower(calls[n][2])))}

Overlap(query, text) ==
    Cardinality({n \in 1..Len(Split(Lower(query))) :
                    Split(Lower(query))[n] \in SetOf(Split(Lower(text)))})

\* C10: search returns at most top_k documents, in non-increasing order of
\* relevance_score; each score is the number of query tokens the document's
\* token set holds; no returned document shares no token with the query, and
\* none is returned twice.
C10_SearchRanksByOverlap ==
    rag.name = "search" =>
        LET res == rag.results
        IN  /\ Len(res) <= rag.top_k
            /\ \A n \in 1..Len(res), m \in 1..Len(res) :
                  n < m => res[n].relevance_score >= res[m].relevance_score
            /\ \A n \in 1..Len(res) :
                  /\ res[n].relevance_score = Overlap(rag.query, res[n].text)
                  /\ Overlap(rag.query, res[n].text) > 0
            /\ \A n \in 1..Len(res), m \in 1..Len(res) :
                  n # m => res[n].id # res[m].id

----------------------------------------------------------------------------
(* Properties of execute_python_code *)

\* the lower-cased code holds a denylist substring
Matched(code) ==
    \E n \in 1..Len(DangerousPatterns) :
        Contains(StrLower(code), DangerousPatterns[n])

\* the call answered Security Error, named a pattern the lower-cased code
\* holds, made no temporary file and started no subprocess
Refused ==
    /\ exec.result.kind = "Security Error"
    /\ \E n \in 1..Len(DangerousPatterns) :
          exec.result.pattern = DangerousPatterns[n]
    /\ Contains(StrLower(exec.code), exec.result.pattern)
    /\ ~exec.created /\ ~exec.spawned /\ exec.written = NotWritten

\* C11 as stated: code whose lower-cased text holds a denylist substring is
\* refused with a Security Error naming the matched pattern, with no
\* temporary file and no subprocess; code holding none of them is always
\* written to a temporary file and run.
C11_DenylistGates ==
    exec.name = "execute" =>
        IF Matched(exec.code)
            THEN Refused
            ELSE exec.written = Written(exec.code) /\ exec.spawned

\* C11 as amended: code whose lower-cased text holds a denylist substring is
\* refused as above; code holding none of them is never refused, and it is
\* written to a temporary file and run unless making the file, encoding the
\* text or starting the interpreter raises, in which case nothing is run
\* and the call returns an Execution error.
C11_DenylistOrError ==
    exec.name = "execute" =>
        IF Matched(exec.code)
            THEN Refused
            ELSE /\ exec.result.kind # "Security Error"
                 /\ \/ exec.written = Written(exec.code) /\ exec.spawned
                    \/ exec.result.kind = "Execution error" /\ ~exec.spawned

\* a call was refused for a pattern the code holds only once lower-cased
C11_Witness ==
    /\ exec.name = "execute"
    /\ exec.result.kind = "Security Error"
    /\ exec.result.pattern = DangerousPatterns[6]
    /\ ~Contains(exec.code, DangerousPatterns[6])

\* programs that import os, subprocess or sys, and programs that open a file:
\* each is one statement, its words set apart by a space, a tab or nothing
Blank == { <<" ">>, <<"\t">> }

ImportPrograms ==
    { <<"i", "m", "p", "o", "r", "t">> \o ws \o m :
        ws \in Blank,
        m \in { <<"o", "s">>, <<"s", "y", "s">>,
                <<"s", "u", "b", "p", "r", "o", "c", "e", "s", "s">> } }

OpenPrograms ==
    { <<"o", "p", "e", "n">> \o ws \o <<"(", "'", "f", "'", ")">> :
        ws \in Blank \cup { << >> } }

\* C12: no code that imports the os, subprocess or sys module, and no code
\* that performs file I/O, is ever run by execute_python_code.
C12_DangerousCodeNeverRuns ==
    (exec.name = "execute" /\ exec.spawned) =>
        exec.code \notin ImportPrograms \cup OpenPrograms

----------------------------------------------------------------------------
(* Properties of the chat and upload servers *)

\* C13: every POST /chat is answered with a JSON object: with status 200 the
\* body carries a non-null string `response` and the session_id; when making
\* the session or calling the agent raised, the status is 500 and the body
\* carries a string `error` and no `response`.
C13_ChatAlwaysAnswers ==
    web.name = "chat" =>
        \/ /\ web.status = 200
           /\ DOMAIN web.body = {"response", "session_id"}
           /\ web.body.response \in STRING
           /\ web.body.response # None
           /\ web.body.session_id = web.session_id
        \/ /\ web.status = 500
           /\ DOMAIN web.body = {"error"}
           /\ web.body.error \in {"Agent() raised", "agent raised"}

\* an agent call returned None and the request was answered all the same
C13_Witness ==
    /\ web.name = "chat"
    /\ web.status = 200
    /\ web.body.response = Apology
    /\ web.agent # 0

\* the step is a POST /chat answered
ChatStep == web'.name = "chat" /\ pending' = pending /\ server' = server

\* no agent has been called for that session_id yet
NoChatYet(session_id) ==
    \A a \in 1..Len(agents) :
        \A n \in 1..Len(agents[a].messages) :
            agents[a].messages[n].from # session_id

\* every later request with the same id is answered by that same agent
SameAgentLater ==
    (ChatStep /\ web'.session_id \in DOMAIN sessions) =>
        /\ web'.agent = sessions[web'.session_id].agent
        /\ Len(agents') = Len(agents)

\* a message is only ever passed to the agent of its own session_id
OwnAgentOnly ==
    /\ (ChatStep /\ web'.agent # 0) =>
          /\ sessions'[web'.session_id].agent = web'.agent
          /\ \A t \in DOMAIN sessions' \ {web'.session_id} :
                sessions'[t].agent # web'.agent
          /\ \A a \in 1..Len(agents) :
                agents'[a].messages =
                    IF a = web'.agent
                        THEN Append(agents[a].messages,
                                    [content |-> web'.message,
                                     from |-> web'.session_id])
                        ELSE agents[a].messages
    /\ \A s \in DOMAIN sessions' :
          \A n \in 1..Len(agents'[sessions'[s].agent].messages) :
              agents'[sessions'[s].agent].messages[n].from = s

\* no request replaces or removes an existing session entry
EntriesStay ==
    \A s \in DOMAIN sessions :
        /\ s \in DOMAIN sessions'
        /\ sessions'[s].agent = sessions[s].agent
        /\ sessions'[s].created_at = sessions[s].created_at

\* C14 as stated: the first /chat request for an id creates the session
\* entry, every later request with the same id is answered by that same
\* agent, a message is only passed to the agent of its own session_id, and
\* no request replaces or removes an existing entry.
C14_FirstChatCreatesSession ==
    [][/\ (ChatStep /\ NoChatYet(web'.session_id)) =>
             /\ web'.session_id \notin DOMAIN sessions
             /\ web'.session_id \in DOMAIN sessions'
       /\ SameAgentLater
       /\ OwnAgentOnly
       /\ EntriesStay]_vars

\* C14 as amended: a /chat request for an id without an entry creates the
\* entry and a new agent for it, unless constructing the agent raises: then
\* the reply is a 500, no agent is called and no entry is made.  In the
\* chat server only /chat makes entries (in the upload server an /upload
\* may have made the entry before the first /chat).  The rest is as stated.
C14_OneAgentPerSession ==
    [][/\ (ChatStep /\ web'.session_id \notin DOMAIN sessions) =>
             IF web'.agent = 0
                 THEN /\ web'.status = 500
                      /\ sessions' = sessions
                      /\ agents' = agents
                 ELSE /\ web'.session_id \in DOMAIN sessions'
                      /\ web'.agent = Len(agents) + 1
                      /\ Len(agents') = Len(agents) + 1
       /\ (server = Chatbot /\ sessions' # sessions) => ChatStep
       /\ SameAgentLater
       /\ OwnAgentOnly
       /\ EntriesStay]_vars

\* a second request of a session was answered by the agent of the first,
\* while another session has its own agent
C14_Witness ==
    /\ web.name = "chat"
    /\ web.agent # 0
    /\ Len(agents[web.agent].messages) = 2
    /\ \E t \in DOMAIN sessions :
          t # web.session_id /\ agents[sessions[t].agent].messages # << >>

\* the step is a POST /upload answered
UploadStep == web'.name = "upload" /\ pending' # pending

\* C15: the tools of the agent made for session S read only file entries
\* uploaded with session_id S (every entry of a session's list lies under
\* that session's directory, and every agent's tools close over the id of
\* the session that holds it), and an upload to one session never changes
\* the file list of another session.
C15_FilesStayInSession ==
    [][server = FileUpload =>
        /\ \A s \in DOMAIN sessions' :
              /\ agents'[sessions'[s].agent].session_id = s
              /\ \A n \in 1..Len(sessions'[s].files) :
                    sessions'[s].files[n].file_path[1] = s
        /\ web'.name = "chat" =>
              \A n \in 1..Len(web'.read) :
                  web'.read[n].file_path[1] = web'.session_id
        /\ UploadStep =>
              \A s \in DOMAIN sessions :
                  s # web'.session_id => sessions'[s].files = sessions[s].files
        /\ ~UploadStep =>
              \A s \in DOMAIN sessions : sessions'[s].files = sessions[s].files]_vars

\* a tool has read the file of its session while another session holds a file
C15_Witness ==
    /\ web.name = "chat"
    /\ web.read # << >>
    /\ web.tool.kind = "Content of"
    /\ \E t \in DOMAIN sessions :
          t # web.session_id /\ sessions[t].files # << >>

----------------------------------------------------------------------------
(* Properties of the external-API tools *)

ApiTools ==
    {"get_weather", "get_news_headlines", "get_exchange_rate",
     "get_public_holidays", "search_wikipedia"}

\* the strings a tool returns from an except clause or for a refused request
ErrorStrings ==
    {"Error getting weather: ", "Error getting news: ", "Error: ",
     "Error getting exchange rate: ", "Error getting holidays: ",
     "Error searching Wikipedia: "}

\* the request failed: no reply came, the status is an error, or the body is
\* no JSON text
RequestFailed(reply) ==
    reply.fault # "none" \/ reply.status >= 400 \/ reply.body = NotJson

\* the replies each tool can read to the end: for get_weather the weather
\* body alone; for the others the bodies that hold what the tool subscripts
Readable ==
    [get_weather |-> {WeatherBody},
     get_news_headlines |->
        {Obj(<< >>), NewsBody(<< Article({"title", "source", "url"}) >>),
         NewsBody(<< >>), NewsRefused, WeatherBody, RatesBody,
         Obj([k \in {"rates"} |-> Arr(<< >>)]),
         Obj([k \in {"title", "extract"} |-> JStr(k)]),
         Obj([k \in {"content_urls"} |-> JStr("https://en.wikipedia.org")])},
     get_exchange_rate |-> {RatesBody, Obj([k \in {"rates"} |-> Arr(<< >>)])},
     get_public_holidays |->
        {Obj(<< >>), Arr(<< >>),
         Arr(<< Holiday(JDate(-1)), Holiday(JDate(1)) >>),
         Arr(<< Holiday(JDate(-1)) >>)},
     search_wikipedia |->
        {Obj(<< >>), WeatherBody, RatesBody, NewsRefused,
         NewsBody(<< Article({"title", "source", "url"}) >>),
         NewsBody(<< Article({"source", "url"}) >>), NewsBody(<< >>),
         Obj([k \in {"rates"} |-> Arr(<< >>)]),
         Obj([k \in {"title", "extract"} |-> JStr(k)])}]

\* C16: a call of an external-API tool issues at most one HTTP request; when
\* the request fails or the reply cannot be read, the tool returns one of
\* its Error strings (it returns, it does not raise) and has still issued
\* one request only; get_news_headlines issues no request while
\* NEWS_API_KEY is unset.
C16_OneRequestErrorString ==
    api.name \in ApiTools =>
        /\ Len(api.requests) <= 1
        /\ "kind" \in DOMAIN api.result
        /\ (/\ api.requests # << >>
            /\ RequestFailed(api.reply) \/ api.reply.body \notin Readable[api.name])
              => api.result.kind \in ErrorStrings
        /\ (api.name = "get_news_headlines" /\ environ = None) =>
              /\ api.requests = << >>
              /\ api.result.kind = "NewsAPI key not found."

\* a tool got a reply with an error status and returned its Error string
C16_Witness ==
    /\ api.name = "get_exchange_rate"
    /\ Len(api.requests) = 1
    /\ api.reply.status = 500
    /\ api.reply.body = RatesBody
    /\ api.result.kind = "Error getting exchange rate: "

----------------------------------------------------------------------------
(* Properties of the console chat *)

\* a line whose stripped text is exit or quit in any letter case
SaysExit(line) ==
    StrLower(StrStrip(line)) \in
        { <<"e", "x", "i", "t">>, <<"q", "u", "i", "t">> }

\* the stripped lines the agent has to see: not empty, not exit or quit
RECURSIVE ForAgent(_)
ForAgent(read) ==
    IF read = << >> THEN << >>
    ELSE IF SaysExit(Head(read)) \/ StrStrip(Head(read)) = << >>
        THEN ForAgent(Tail(read))
    ELSE << StrStrip(Head(read)) >> \o ForAgent(Tail(read))

\* the loop has been entered
InLoop == console.pc \in {"input", "done", "raised"}

\* the agent was called once for each line it has to see, in order
CalledOncePerLine == InLoop => console.calls = ForAgent(console.read)

\* C17 as stated: the console loop has ended if and only if the line read
\* last says exit or quit, and then Goodbye! was printed; the agent was
\* called exactly once for each non-empty line that does not say exit.
C17_EndsOnlyOnExit ==
    /\ InLoop =>
          (console.pc # "input" <=>
              /\ console.read # << >>
              /\ SaysExit(console.read[Len(console.read)])
              /\ console.printed[Len(console.printed)] = "Goodbye!")
    /\ CalledOncePerLine

\* C17: the console loop ends with Goodbye! if and only if the line read
\* last says exit or quit in any letter case; an empty line and an
\* Exception of the agent leave it reading; it ends without Goodbye! only
\* when input() raises or the agent call is interrupted; the agent was
\* called exactly once for each non-empty line that does not say exit.
C17_EndsOnExitOrRaise ==
    /\ InLoop =>
          /\ console.pc = "done" <=>
                /\ console.read # << >>
                /\ SaysExit(console.read[Len(console.read)])
          /\ console.pc = "done" <=>
                console.printed[Len(console.printed)] = "Goodbye!"
          /\ \A n \in 1..(Len(console.read) - 1) : ~SaysExit(console.read[n])
          /\ console.pc = "raised" =>
                \/ Len(console.printed) = 1 + Len(console.calls)
                \/ Len(console.printed) = Len(console.calls)
    /\ CalledOncePerLine

\* the loop went on after an empty line and after an Exception of the agent,
\* and ended on " QuIt "
C17_Witness ==
    /\ console.pc = "done"
    /\ Len(console.read) = 3
    /\ console.read[1] = << >>
    /\ console.read[3] = <<" ", "Q", "u", "I", "t", " ">>
    /\ console.printed =
          << "=== Strands Agent Chat ===", "Error: ", "Goodbye!" >>

----------------------------------------------------------------------------
(* Properties of chunk_text *)

\* chunk_text has been called and has not handed its list over
Chunking == chunker.pc \in {"while", "returned"}

\* the starts of the passes made so far, and the start of the next one
Starts ==
    [n \in 1..Len(chunker.windows) |-> chunker.windows[n].start]
        \o << chunker.start >>

\* C18: in chunk_text, for chunk_size > overlap >= 0, the start offset
\* strictly increases from one pass of the loop to the next and is never
\* negative (so the loop ends and a finite list is returned).
C18_StartIncreases ==
    Chunking =>
        \A n \in 1..Len(Starts) :
            /\ Starts[n] >= 0
            /\ n > 1 => Starts[n] > Starts[n - 1]

\* the positions of the text that are not whitespace
Inked(text) == {p \in 0..(Len(text) - 1) : text[p + 1] \notin Whitespace}

\* C19: chunk_text loses no text: every position of the text that is not
\* whitespace lies in the [start, end) range of a returned chunk, and the
\* text of each chunk is text[start:end] stripped of surrounding whitespace.
C19_NoTextLost ==
    chunker.pc = "returned" =>
        /\ \A p \in Inked(chunker.text) :
              \E n \in 1..Len(chunker.chunks) :
                  /\ chunker.chunks[n].start <= p
                  /\ p < chunker.chunks[n].end
        /\ \A n \in 1..Len(chunker.chunks) :
              chunker.chunks[n].text =
                  StrStrip(TextSlice(chunker.text, chunker.chunks[n].start,
                                     chunker.chunks[n].end))

\* the offsets past the first character of the window at start that hold a
\* '.' or a newline
Boundaries(text, start, chunk_size) ==
    {p \in (start + 1)..(start + chunk_size - 1) :
        /\ 0 <= p /\ p < Len(text)
        /\ text[p + 1] \in {".", "\n"}}

\* the chunk ends just after the last boundary of its window, if it has one
EndsAtLastBoundary(text, chunk, chunk_size) ==
    \A p \in Boundaries(text, chunk.start, chunk_size) :
        (\A q \in Boundaries(text, chunk.start, chunk_size) : q <= p)
            => chunk.end = p + 1

\* the window of the chunk reaches the end of the text
ReachesTheEnd(text, chunk, chunk_size) == chunk.start + chunk_size >= Len(text)

\* the passes whose text is not empty after strip()
RECURSIVE WithText(_, _)
WithText(text, windows) ==
    IF windows = << >> THEN << >>
    ELSE IF StrStrip(TextSlice(text, Head(windows).start, Head(windows).end))
                = << >>
        THEN WithText(text, Tail(windows))
    ELSE << Head(windows) >> \o WithText(text, Tail(windows))

\* C20 as stated: every chunk spans at most chunk_size characters, ends at
\* the last '.' or newline of its window when one exists past the window's
\* first character, and each chunk after the first starts exactly overlap
\* characters before the end of the chunk preceding it.
C20_ChunksOverlap ==
    Chunking =>
        \A n \in 1..Len(chunker.chunks) :
            /\ chunker.chunks[n].end - chunker.chunks[n].start
                  <= chunker.chunk_size
            /\ EndsAtLastBoundary(chunker.text, chunker.chunks[n],
                                  chunker.chunk_size)
            /\ n > 1 => chunker.chunks[n].start
                          = chunker.chunks[n - 1].end - chunker.overlap

\* C20: every chunk starts inside the text and spans at most chunk_size
\* characters; a chunk whose window stops short of the end of the text ends
\* at the last '.' or newline of the window when one exists past the
\* window's first character, and at the end of the window otherwise; a
\* chunk whose window reaches the end of the text ends at the end of the
\* window; each pass of the loop after the first starts exactly overlap
\* characters before the end of the pass preceding it, and the chunks are
\* the passes whose text is not only whitespace, in order.
C20_WindowsOverlap ==
    Chunking =>
        /\ \A n \in 1..Len(chunker.chunks) :
              LET chunk == chunker.chunks[n]
              IN  /\ chunk.start >= 0
                  /\ chunk.start < chunk.end
                  /\ chunk.end - chunk.start <= chunker.chunk_size
                  /\ IF ReachesTheEnd(chunker.text, chunk, chunker.chunk_size)
                        \/ Boundaries(chunker.text, chunk.start,
                                      chunker.chunk_size) = {}
                        THEN chunk.end = chunk.start + chunker.chunk_size
                        ELSE EndsAtLastBoundary(chunker.text, chunk,
                                                chunker.chunk_size)
        /\ \A n \in 2..Len(chunker.windows) :
              chunker.windows[n].start
                  = chunker.windows[n - 1].end - chunker.overlap
        /\ [n \in 1..Len(chunker.chunks) |->
                [start |-> chunker.chunks[n].start, end |-> chunker.chunks[n].end]]
              = WithText(chunker.text, chunker.windows)

\* "a.aa" in chunks of 3 with an overlap of 1: "a." and then ".aa"
C20_Witness ==
    /\ chunker.pc = "returned"
    /\ chunker.text = <<"a", ".", "a", "a">>
    /\ chunker.chunk_size = 3
    /\ chunker.overlap = 1
    /\ Len(chunker.chunks) = 2
    /\ chunker.chunks[1].end = 2
    /\ chunker.chunks[2].start = 1
    /\ chunker.chunks[2].text = <<".", "a", "a">>


----------------------------------------------------------------------------
(* Properties of the servers with requests in flight together *)

\* every entry holds an agent of its own and every agent made is held by an
\* entry: none was made twice for one session_id, none was replaced
OneAgentEach ==
    /\ Len(agents) = Cardinality(DOMAIN sessions)
    /\ \A id \in DOMAIN sessions : sessions[id]["agent"] \in 1..Len(agents)
    /\ \A id1 \in DOMAIN sessions, id2 \in DOMAIN sessions :
          sessions[id1]["agent"] = sessions[id2]["agent"] => id1 = id2

\* every message an agent was called with came with the session_id whose
\* entry holds that agent
ServedByOwnAgent ==
    \A a \in 1..Len(agents) : \A n \in 1..Len(agents[a].messages) :
        /\ agents[a].messages[n].from \in DOMAIN sessions
        /\ sessions[agents[a].messages[n].from]["agent"] = a

\* a request has just been answered
Answering == web.name \in {"chat", "upload"}

\* C21 as stated: requests for one session_id that are in flight together
\* create exactly one session entry and one agent, and each of them is
\* served by that agent: once a request has been answered its session_id
\* has its entry, a /chat was answered by the agent of that entry, and no
\* agent was made besides the ones the entries hold.
C21_AllServedByOneAgent ==
    /\ OneAgentEach
    /\ ServedByOwnAgent
    /\ Answering =>
          /\ web.session_id \in DOMAIN sessions
          /\ web.name = "chat" => web.agent = sessions[web.session_id]["agent"]

\* C21: requests for one session_id that are in flight together create at
\* most one session entry and one agent: no entry is replaced and no second
\* agent is made, and every request that reaches an agent reaches the agent
\* of its session_id's entry.  A request is answered with status 500
\* without reaching an agent when Agent(...) raises (or, for /upload, when
\* the file cannot be written); it then creates no entry and a later
\* request does.
C21_AtMostOneAgent ==
    /\ OneAgentEach
    /\ ServedByOwnAgent
    /\ (Answering /\ web.status = 200) =>
          /\ web.session_id \in DOMAIN sessions
          /\ web.name = "chat" => web.agent = sessions[web.session_id]["agent"]
    /\ (web.name = "chat" /\ web.status = 500) =>
          IF web.agent = 0
              THEN web.body = [error |-> "Agent() raised"]
              ELSE /\ web.session_id \in DOMAIN sessions
                   /\ web.agent = sessions[web.session_id]["agent"]
    /\ \A r \in pending : r.known => r.session_id \in DOMAIN sessions

\* two /chat requests for "default" were received while it had no entry;
\* the second found the entry the first had made and was answered by the
\* same agent, the only one there is
C21_Witness ==
    /\ web.name = "chat"
    /\ web.status = 200
    /\ web.session_id = "default"
    /\ ~web.known_on_receipt
    /\ Len(agents) = 1
    /\ Len(agents[web.agent].messages) = 2
    /\ agents[web.agent].messages[1].from = "default"
    /\ DOMAIN sessions = {"default"}

====
